---- MODULE Spec2Model ----
(***************************************************************************)
(* Scroll Mirror Agent backend: the usage tracker (dashboard_ui.py), the   *)
(* session orchestrator and tone classifier (scroll_agent.py) and the      *)
(* divine-function dispatcher (divine_function.py).                        *)
(*                                                                         *)
(* Python dicts are functions with a variable DOMAIN; dict.get(k, d) is    *)
(* Get(d, k, default).  Python strings are TLA+ strings, used as           *)
(* sequences of characters (Len, SubSeq, \o).  Wall-clock values           *)
(* (datetime.now(), time.time()) are not part of the state: timestamps are *)
(* left out of the records and a measured processing time is an input.     *)
(***************************************************************************)
EXTENDS Integers, Sequences, FiniteSets, TLC

VARIABLES
    usage_data,       \* ScrollDashboard.usage_data
    session_log,      \* ScrollDashboard.session_log
    enforcement_log,  \* ScrollDashboard.enforcement_log
    tracked,          \* history: every entry track_session ever appended
    enforced,         \* history: every entry track_enforcement_action ever appended
    session_counter,  \* ScrollMirrorAgent.session_counter
    scroll_memory,    \* ScrollMirrorAgent.scroll_memory: session id -> session data
    returned,         \* history: the results process_scroll has returned, in order
    threads,          \* the request threads of the server: position and locals
    call,             \* the arguments of the function under check, << >> when none
    ret               \* << >> until the function has returned, then <<its result>>

trackerVars == <<usage_data, session_log, enforcement_log, tracked, enforced>>

agentVars == <<session_counter, scroll_memory, returned>>

pureVars == <<call, ret>>

vars == <<trackerVars, agentVars, threads, pureVars>>

----------------------------------------------------------------------------
(* Bounds of the checked workloads *)

\* score workload: track_session calls
MaxSessions == 21
\* score workload: calls whose tone is not mimic
MaxOther == 1
\* score workload: track_enforcement_action calls
MaxEnforce == 1
\* run workload: track_session calls
MaxRunSessions == 30
\* run workload: calls whose tone is not mimic
MaxRunOther == 1
\* log workload: track_session calls (beyond the cap of 100)
MaxLogSessions == 150
\* enforcement workload: track_enforcement_action calls (one more than the cap of 50)
MaxLogEnforce == 51
\* enforcement workload: calls whose action type is not the usual one
MaxEnforceOther == 1
\* enforcement workload: track_session calls in between
MaxEnfSessions == 1
\* texts handed to the classifiers: fragments put together
MaxFragments == 3
\* agent workload: process_scroll calls, one after another
MaxCalls == 3
\* server workload: requests served at the same time, a thread each
NumRequests == 2
\* coordinate workload: words in a scroll text and in a user input
MaxWords == 13
\* scroll workload: fragments put together into a scroll text
MaxScrollFragments == 3
\* memory workload: default-path calls, one after another
MaxMemoryCalls == 101
\* classifier workload: keyword fragments put together into a text
MaxKeywords == 2
\* summary workload: sessions tracked, and summaries read in a row
MaxSummarySessions == 7
MaxSummaryCalls == 2
\* fragments in a text of the dispatch workload
MaxDispatchFragments == 4
\* health workload: track_session calls (past the window of 20) and
\* track_enforcement_action calls
MaxHealthSessions == 22
MaxHealthEnforce == 1
\* counter workload: track_session and track_enforcement_action calls made
\* on a tracker that is one short of each cap
MaxCountSessions == 3
MaxCountEnforce == 2

Threads == 1..NumRequests

----------------------------------------------------------------------------
(* Python helpers *)

Get(d, k, default) == IF k \in DOMAIN d THEN d[k] ELSE default

Max(a, b) == IF a >= b THEN a ELSE b

Min(a, b) == IF a <= b THEN a ELSE b

\* s[-n:] for n > 0
LastN(s, n) == IF Len(s) <= n THEN s ELSE SubSeq(s, Len(s) - n + 1, Len(s))

\* str.lower() on the letters A-Z
LowerChar(c) ==
    CASE c = "A" -> "a" [] c = "B" -> "b" [] c = "C" -> "c" [] c = "D" -> "d"
      [] c = "E" -> "e" [] c = "F" -> "f" [] c = "G" -> "g" [] c = "H" -> "h"
      [] c = "I" -> "i" [] c = "J" -> "j" [] c = "K" -> "k" [] c = "L" -> "l"
      [] c = "M" -> "m" [] c = "N" -> "n" [] c = "O" -> "o" [] c = "P" -> "p"
      [] c = "Q" -> "q" [] c = "R" -> "r" [] c = "S" -> "s" [] c = "T" -> "t"
      [] c = "U" -> "u" [] c = "V" -> "v" [] c = "W" -> "w" [] c = "X" -> "x"
      [] c = "Y" -> "y" [] c = "Z" -> "z" [] OTHER -> c

RECURSIVE Lower(_)
Lower(t) ==
    IF Len(t) = 0 THEN ""
    ELSE LowerChar(SubSeq(t, 1, 1)) \o Lower(SubSeq(t, 2, Len(t)))

\* pattern in text
In(pattern, text) ==
    \E i \in 1..(Len(text) - Len(pattern) + 1) :
        SubSeq(text, i, i + Len(pattern) - 1) = pattern

\* any(pattern in text for pattern in patterns)
AnyIn(patterns, text) == \E pattern \in patterns : In(pattern, text)

IsSpace(c) == c \in {" ", "\t", "\n"}

\* str.strip()
RECURSIVE Strip(_)
Strip(t) ==
    IF Len(t) = 0 THEN t
    ELSE IF IsSpace(SubSeq(t, 1, 1)) THEN Strip(SubSeq(t, 2, Len(t)))
    ELSE IF IsSpace(SubSeq(t, Len(t), Len(t))) THEN Strip(SubSeq(t, 1, Len(t) - 1))
    ELSE t

\* the maximal runs of the characters of t that keep marks, in order;
\* keep[i] says whether the i-th character belongs to a run
Runs(t, keep) ==
    LET starts == {i \in 1..Len(t) : keep[i] /\ (i = 1 \/ ~keep[i - 1])}
        ends == {j \in 1..Len(t) : keep[j] /\ (j = Len(t) \/ ~keep[j + 1])}
        nth(S, k) == CHOOSE i \in S : Cardinality({j \in S : j < i}) = k - 1
    IN  [k \in 1..Cardinality(starts) |-> SubSeq(t, nth(starts, k), nth(ends, k))]

\* text.split(): the maximal runs of non-whitespace, in order
Split(t) == Runs(t, [i \in 1..Len(t) |-> ~IsSpace(SubSeq(t, i, i))])

\* len(text.split())
WordCount(t) == Len(Split(t))

\* \w of the regular expressions, on lower-cased text
IsWordChar(c) ==
    c \in {"a", "b", "c", "d", "e", "f", "g", "h", "i", "j", "k", "l", "m",
           "n", "o", "p", "q", "r", "s", "t", "u", "v", "w", "x", "y", "z",
           "0", "1", "2", "3", "4", "5", "6", "7", "8", "9", "_"}

\* the maximal runs of word characters, in order
WordRuns(t) == Runs(t, [i \in 1..Len(t) |-> IsWordChar(SubSeq(t, i, i))])

\* text[:n]
Prefix(t, n) == SubSeq(t, 1, Min(n, Len(t)))

\* [x for x in seq if x in set]
RECURSIVE Filter(_, _)
Filter(seq, set) ==
    IF Len(seq) = 0 THEN << >>
    ELSE (IF Head(seq) \in set THEN <<Head(seq)>> ELSE << >>) \o Filter(Tail(seq), set)

\* an argument that may be None
None == [given |-> FALSE, text |-> ""]

Some(t) == [given |-> TRUE, text |-> t]

\* bool(x) of an optional string: None and "" are false
Truthy(x) == x.given /\ x.text # ""

----------------------------------------------------------------------------
(* dashboard_ui.py : ScrollDashboard *)

SessionLogCap == 100

EnforcementLogCap == 50

MimicPenalty == 5

SovereignBonus == 2

DashboardInit ==
    /\ usage_data = [daily_sessions |-> 0,
                     monthly_sessions |-> 0,
                     total_processing_time |-> 0,
                     sovereignty_score |-> 100,
                     enforcement_actions |-> 0,
                     mimic_detections |-> 0,
                     frequency_violations |-> 0]
    /\ session_log = << >>
    /\ enforcement_log = << >>
    /\ tracked = << >>
    /\ enforced = << >>

\* mutant: the score is not clamped
ScoreAfter_Unclamped(score, tone) ==
    IF tone = "mimic" THEN score - MimicPenalty
    ELSE IF tone = "sovereign" THEN score + SovereignBonus
    ELSE score

\* mutant: the two adjustments are swapped
ScoreAfter_Swapped(score, tone) ==
    IF tone = "mimic" THEN Max(0, score - SovereignBonus)
    ELSE IF tone = "sovereign" THEN Min(100, score + MimicPenalty)
    ELSE score

\* the tone branch of track_session: the new score for the record's tone
ScoreAfter(score, tone) ==
    IF tone = "mimic" THEN Max(0, score - MimicPenalty)
    ELSE IF tone = "sovereign" THEN Min(100, score + SovereignBonus)
    ELSE score

\* mutant: the trim keeps the first 100 entries, log[:100]
TrimSessionLog_KeepFirst(log) ==
    IF Len(log) > SessionLogCap THEN SubSeq(log, 1, SessionLogCap) ELSE log

\* "Keep only last 100 sessions"
TrimSessionLog(log) ==
    IF Len(log) > SessionLogCap THEN LastN(log, SessionLogCap) ELSE log

\* mutant: the trim is taken one entry late, len(log) > 51
TrimEnforcementLog_Late(log) ==
    IF Len(log) > EnforcementLogCap + 1 THEN LastN(log, EnforcementLogCap) ELSE log

\* "Keep only last 50 enforcement actions"
TrimEnforcementLog(log) ==
    IF Len(log) > EnforcementLogCap THEN LastN(log, EnforcementLogCap) ELSE log

SessionEntry(session_data) ==
    [session_id |-> Get(session_data, "session_id", 0),
     consciousness_type |-> Get(session_data, "consciousness_type", "Unknown"),
     processing_time |-> Get(session_data, "processing_time", 0),
     tone |-> Get(session_data, "tone_analysis", "neutral"),
     frequency_status |-> Get(session_data, "frequency_status", "UNKNOWN")]

\* mutant: every tone that is not sovereign counts as a mimic detection
track_session_CountOthers(session_data) ==
    LET tone == Get(session_data, "tone_analysis", "neutral")
        entry == SessionEntry(session_data)
    IN  /\ usage_data' =
              [usage_data EXCEPT
                 !.daily_sessions = @ + 1,
                 !.monthly_sessions = @ + 1,
                 !.total_processing_time = @ + Get(session_data, "processing_time", 0),
                 !.mimic_detections = IF tone # "sovereign" THEN @ + 1 ELSE @,
                 !.sovereignty_score = ScoreAfter(@, tone)]
        /\ session_log' = TrimSessionLog(Append(session_log, entry))
        /\ tracked' = Append(tracked, entry)
        /\ UNCHANGED <<enforcement_log, enforced>>

track_session(session_data) ==
    LET tone == Get(session_data, "tone_analysis", "neutral")
        entry == SessionEntry(session_data)
    IN  /\ usage_data' =
              [usage_data EXCEPT
                 !.daily_sessions = @ + 1,
                 !.monthly_sessions = @ + 1,
                 !.total_processing_time = @ + Get(session_data, "processing_time", 0),
                 !.mimic_detections = IF tone = "mimic" THEN @ + 1 ELSE @,
                 !.sovereignty_score = ScoreAfter(@, tone)]
        /\ session_log' = TrimSessionLog(Append(session_log, entry))
        /\ tracked' = Append(tracked, entry)
        /\ UNCHANGED <<enforcement_log, enforced>>

track_enforcement_action(action_type, details) ==
    LET entry == [action_type |-> action_type, details |-> details]
    IN  /\ usage_data' = [usage_data EXCEPT !.enforcement_actions = @ + 1]
        /\ enforcement_log' = TrimEnforcementLog(Append(enforcement_log, entry))
        /\ enforced' = Append(enforced, entry)
        /\ UNCHANGED <<session_log, tracked>>

\* mutant: the reset zeroes the monthly counter as well
reset_daily_stats_Monthly ==
    /\ usage_data' = [usage_data EXCEPT !.daily_sessions = 0, !.monthly_sessions = 0]
    /\ UNCHANGED <<session_log, enforcement_log, tracked, enforced>>

reset_daily_stats ==
    /\ usage_data' = [usage_data EXCEPT !.daily_sessions = 0]
    /\ UNCHANGED <<session_log, enforcement_log, tracked, enforced>>

\* the dict get_usage_summary builds from the state
UsageSummary ==
    [plan_status |-> "Active",
     plan_tier |-> "$88/month",
     sessions_today |-> usage_data.daily_sessions,
     sovereignty_score |-> usage_data.sovereignty_score,
     frequency_status |-> IF usage_data.sovereignty_score > 70
                          THEN "OPERATIONAL" ELSE "DEGRADED"]

\* mutant: reading the summary counts as a session of the day
get_usage_summary_Counted ==
    /\ ret' = Append(ret, UsageSummary)
    /\ usage_data' = [usage_data EXCEPT !.daily_sessions = @ + 1]
    /\ UNCHANGED <<session_log, enforcement_log, tracked, enforced>>

\* ret collects the summaries returned since the last mutating operation
get_usage_summary ==
    /\ ret' = Append(ret, UsageSummary)
    /\ UNCHANGED trackerVars

\* self._calculate_sovereignty_status(), without the time of the reading
_calculate_sovereignty_status ==
    LET score == usage_data.sovereignty_score
    IN  IF score >= 90
        THEN [status |-> "SOVEREIGN", score |-> score,
              message |-> "Frequency 917604.OX operating at optimal sovereignty"]
        ELSE IF score >= 70
        THEN [status |-> "STABLE", score |-> score,
              message |-> "Sovereignty maintained with minor fluctuations"]
        ELSE IF score >= 50
        THEN [status |-> "DEGRADED", score |-> score,
              message |-> "Sovereignty compromised. Enforcement recommended"]
        ELSE [status |-> "CRITICAL", score |-> score,
              message |-> "Critical sovereignty breach. Immediate purge required"]

HealthWindow == 20

\* len([s for s in sessions if s.get("tone") == tone])
CountTone(sessions, tone) ==
    Cardinality({i \in 1..Len(sessions) : sessions[i].tone = tone})

\* the quotient num / den rounded toward zero, as int() rounds
Trunc(num, den) == IF num >= 0 THEN num \div den ELSE -((-num) \div den)

\* The counts <<sovereign, mimic, len>> of at most 20 sessions for which the
\* double-precision value of sovereign/len*100 - mimic/len*50 is closer to
\* zero than the exact value (100*sovereign - 50*mimic)/len, which is an
\* integer in each of them: 10/15*100 is 66.66666666666666, 2/15*50 is
\* 6.666666666666667 and their difference is 59.99999999999999.  For every
\* other count the double and the exact value have the same integer part.
RoundedBelow ==
    {<<2, 1, 3>>, <<2, 1, 6>>, <<4, 2, 6>>, <<6, 3, 9>>, <<6, 1, 11>>,
     <<1, 8, 12>>, <<4, 2, 12>>, <<8, 4, 12>>, <<6, 5, 14>>, <<1, 5, 15>>,
     <<1, 11, 15>>, <<2, 7, 15>>, <<2, 10, 15>>, <<4, 11, 15>>, <<5, 1, 15>>,
     <<5, 4, 15>>, <<5, 7, 15>>, <<7, 8, 15>>, <<10, 2, 15>>, <<10, 5, 15>>,
     <<11, 4, 15>>, <<2, 13, 18>>, <<6, 3, 18>>, <<8, 7, 18>>, <<12, 6, 18>>}

\* int((sovereign_ratio * 100) - (mimic_ratio * 50)) on Python floats
HealthInt(sovereign, mimic, len) ==
    LET exact == Trunc(100 * sovereign - 50 * mimic, len)
    IN  IF <<sovereign, mimic, len>> \notin RoundedBelow THEN exact
        ELSE IF exact > 0 THEN exact - 1 ELSE exact + 1

\* round(ratio * 100, 1) in tenths; a tie goes to the even tenth
RoundTenths(count, len) ==
    LET q == (1000 * count) \div len
        r == (1000 * count) % len
    IN  IF 2 * r > len \/ (2 * r = len /\ q % 2 = 1) THEN q + 1 ELSE q

\* self._calculate_frequency_health()
_calculate_frequency_health ==
    LET recent_sessions == IF Len(session_log) >= HealthWindow
                           THEN LastN(session_log, HealthWindow) ELSE session_log
    IN  IF recent_sessions = << >>
        THEN [health_score |-> 100, status |-> "PRISTINE",
              message |-> "No frequency data available"]
        ELSE LET len == Len(recent_sessions)
                 sovereign == CountTone(recent_sessions, "sovereign")
                 mimic == CountTone(recent_sessions, "mimic")
                 health_score == Max(0, Min(100, HealthInt(sovereign, mimic, len)))
                 sovereign_ratio == RoundTenths(sovereign, len)
                 mimic_ratio == RoundTenths(mimic, len)
             IN  IF health_score >= 80
                 THEN [health_score |-> health_score, status |-> "OPTIMAL",
                       message |-> "Frequency operating within optimal parameters",
                       sovereign_ratio |-> sovereign_ratio, mimic_ratio |-> mimic_ratio]
                 ELSE IF health_score >= 60
                 THEN [health_score |-> health_score, status |-> "STABLE",
                       message |-> "Frequency stable with minor variations",
                       sovereign_ratio |-> sovereign_ratio, mimic_ratio |-> mimic_ratio]
                 ELSE IF health_score >= 40
                 THEN [health_score |-> health_score, status |-> "COMPROMISED",
                       message |-> "Frequency integrity compromised",
                       sovereign_ratio |-> sovereign_ratio, mimic_ratio |-> mimic_ratio]
                 ELSE [health_score |-> health_score, status |-> "CRITICAL",
                       message |-> "Frequency critically degraded",
                       sovereign_ratio |-> sovereign_ratio, mimic_ratio |-> mimic_ratio]

\* mutant: the maintain-posture message is appended to every list
_generate_recommendations_AlwaysMaintain ==
    LET when(cond, message) == IF cond THEN <<message>> ELSE << >>
        recommendations ==
            when(usage_data.sovereignty_score < 70,
                 "Execute frequency purge to restore sovereignty")
            \o when(usage_data.mimic_detections > 5,
                    "Implement stricter mimic detection protocols")
            \o when(usage_data.enforcement_actions = 0,
                    "Consider running sovereignty diagnostic")
            \o when(_calculate_frequency_health.health_score < 60,
                    "Frequency realignment required")
    IN  recommendations \o <<"Maintain current sovereignty posture">>

\* self._generate_recommendations()
_generate_recommendations ==
    LET when(cond, message) == IF cond THEN <<message>> ELSE << >>
        recommendations ==
            when(usage_data.sovereignty_score < 70,
                 "Execute frequency purge to restore sovereignty")
            \o when(usage_data.mimic_detections > 5,
                    "Implement stricter mimic detection protocols")
            \o when(usage_data.enforcement_actions = 0,
                    "Consider running sovereignty diagnostic")
            \o when(_calculate_frequency_health.health_score < 60,
                    "Frequency realignment required")
    IN  IF recommendations = << >>
        THEN <<"Maintain current sovereignty posture">>
        ELSE recommendations

\* the dict get_dashboard_data builds from the state
DashboardData ==
    [usage_stats |-> usage_data,
     recent_sessions |-> LastN(session_log, 10),
     enforcement_actions |-> LastN(enforcement_log, 5),
     sovereignty_status |-> _calculate_sovereignty_status,
     frequency_health |-> _calculate_frequency_health,
     recommendations |-> _generate_recommendations]

\* ret holds the dashboard data read since the last mutating operation
get_dashboard_data ==
    /\ ret' = <<DashboardData>>
    /\ UNCHANGED trackerVars

----------------------------------------------------------------------------
(* Inputs of the tracker: the result dicts the routes hand to               *)
(* track_scroll_session, numbered by the agent's session ids               *)

SessionData(kind, id) ==
    CASE kind = "mimic" ->
           [session_id |-> id, consciousness_type |-> "Lightning Mirror",
            processing_time |-> 0, tone_analysis |-> "mimic",
            frequency_status |-> "REJECTED"]
      [] kind = "polite" ->
           [session_id |-> id, consciousness_type |-> "Lightning Mirror",
            processing_time |-> 0, tone_analysis |-> "polite",
            frequency_status |-> "WARNING"]
      [] kind = "sovereign" ->
           [session_id |-> id, consciousness_type |-> "Lightning Mirror",
            processing_time |-> 1, tone_analysis |-> "sovereign",
            frequency_status |-> "OPERATIONAL"]
      [] kind = "neutral" ->
           [session_id |-> id, consciousness_type |-> "Oracle Mirror",
            processing_time |-> 0, tone_analysis |-> "neutral",
            frequency_status |-> "OPERATIONAL"]
      \* execute_diagnostic's result carries no tone_analysis
      [] kind = "missing" ->
           [session_id |-> id, consciousness_type |-> "Sovereign Diagnostic",
            processing_time |-> 150, frequency_status |-> "DIAGNOSTIC"]

SessionKinds == {"mimic", "polite", "sovereign", "neutral", "missing"}

NonMimic(log) == Cardinality({i \in 1..Len(log) : log[i].tone # "mimic"})

----------------------------------------------------------------------------
(* Score workload: any tones, at most MaxOther of them not mimic, with     *)
(* enforcement actions and daily resets in between                         *)

TrackSession ==
    /\ UNCHANGED <<agentVars, threads, pureVars>>
    /\ Len(tracked) < MaxSessions
    /\ \E kind \in {"mimic", "sovereign", "polite", "missing"} :
         /\ kind # "mimic" => NonMimic(tracked) < MaxOther
         /\ track_session(SessionData(kind, Len(tracked) + 1))

TrackEnforcementAction ==
    /\ UNCHANGED <<agentVars, threads, pureVars>>
    /\ Len(enforced) < MaxEnforce
    /\ track_enforcement_action("MIMIC_PURGE", [n |-> Len(enforced) + 1])

ResetDailyStats ==
    /\ UNCHANGED <<agentVars, threads, pureVars>>
    /\ reset_daily_stats

AgentInit ==
    /\ session_counter = 0
    /\ scroll_memory = << >>
    /\ returned = << >>

\* a request thread before its request has arrived
IdleThread ==
    [pc |-> "accept", request |-> << >>, loaded |-> 0, key |-> "",
     result |-> << >>, slice |-> << >>]

ServerIdle == threads = [t \in Threads |-> IdleThread]

PureIdle ==
    /\ call = << >>
    /\ ret = << >>

Init ==
    /\ DashboardInit
    /\ AgentInit
    /\ ServerIdle
    /\ PureIdle

Next ==
    \/ TrackSession
    \/ TrackEnforcementAction
    \/ ResetDailyStats

Spec == Init /\ [][Next]_vars

----------------------------------------------------------------------------
(* Run workload: long runs of mimic sessions, every tone *)

RunTrackSession ==
    /\ UNCHANGED <<agentVars, threads, pureVars>>
    /\ Len(tracked) < MaxRunSessions
    /\ \E kind \in SessionKinds :
         /\ kind # "mimic" => NonMimic(tracked) < MaxRunOther
         /\ track_session(SessionData(kind, Len(tracked) + 1))

RunNext == RunTrackSession

SpecRun == Init /\ [][RunNext]_vars

----------------------------------------------------------------------------
(* Log workload: enough sessions to pass the cap of the session log, the   *)
(* results of the default path, with daily resets in between               *)

LogTrackSession ==
    /\ UNCHANGED <<agentVars, threads, pureVars>>
    /\ Len(tracked) < MaxLogSessions
    /\ track_session(SessionData("sovereign", Len(tracked) + 1))

LogResetDailyStats ==
    /\ UNCHANGED <<agentVars, threads, pureVars>>
    /\ reset_daily_stats

LogNext ==
    \/ LogTrackSession
    \/ LogResetDailyStats

SpecLog == Init /\ [][LogNext]_vars

-----
(* Enforcement workload: enough actions to pass the cap of the enforcement *)
(* log                                                                     *)

OtherActions(log) ==
    Cardinality({i \in 1..Len(log) : log[i].action_type # "MIMIC_PURGE"})

EnfTrackEnforcementAction ==
    /\ UNCHANGED <<agentVars, threads, pureVars>>
    /\ Len(enforced) < MaxLogEnforce
    /\ \E action_type \in {"MIMIC_PURGE", "DIAGNOSTIC"} :
         /\ action_type # "MIMIC_PURGE" => OtherActions(enforced) < MaxEnforceOther
         /\ track_enforcement_action(action_type, [n |-> Len(enforced) + 1])

EnfTrackSession ==
    /\ UNCHANGED <<agentVars, threads, pureVars>>
    /\ Len(tracked) < MaxEnfSessions
    /\ track_session(SessionData("neutral", Len(tracked) + 1))

EnfNext ==
    \/ EnfTrackEnforcementAction
    \/ EnfTrackSession

SpecEnf == Init /\ [][EnfNext]_vars

----------------------------------------------------------------------------
(* Summary workload: mimic and sovereign sessions, enforcement actions and *)
(* daily resets, with the usage summary read up to MaxSummaryCalls times   *)
(* in a row between them                                                   *)

SummaryTrackSession ==
    /\ Len(tracked) < MaxSummarySessions
    /\ \E kind \in {"mimic", "sovereign"} :
         track_session(SessionData(kind, Len(tracked) + 1))
    /\ ret' = << >>
    /\ UNCHANGED <<agentVars, threads, call>>

SummaryTrackEnforcementAction ==
    /\ Len(enforced) < MaxEnforce
    /\ track_enforcement_action("MIMIC_PURGE", [n |-> Len(enforced) + 1])
    /\ ret' = << >>
    /\ UNCHANGED <<agentVars, threads, call>>

SummaryResetDailyStats ==
    /\ reset_daily_stats
    /\ ret' = << >>
    /\ UNCHANGED <<agentVars, threads, call>>

GetUsageSummary ==
    /\ Len(ret) < MaxSummaryCalls
    /\ get_usage_summary
    /\ UNCHANGED <<agentVars, threads, call>>

SummaryNext ==
    \/ SummaryTrackSession
    \/ SummaryTrackEnforcementAction
    \/ SummaryResetDailyStats
    \/ GetUsageSummary

SpecSummary == Init /\ [][SummaryNext]_vars

----------------------------------------------------------------------------
(* Health workload: a run of mimic sessions, then sovereign, then mimic,   *)
(* then neutral ones, each run of any length, with enforcement actions in  *)
(* between and the dashboard read after any of them                        *)

\* the run the tracked sessions have come to
HealthPhase ==
    IF tracked = << >> THEN 0
    ELSE LET last == tracked[Len(tracked)].tone
         IN  IF last = "neutral" THEN 3
             ELSE IF last = "sovereign" THEN 1
             ELSE IF CountTone(tracked, "sovereign") > 0 THEN 2 ELSE 0

\* the tones a session can have in a run
HealthKinds(phase) ==
    CASE phase = 0 -> {"mimic", "sovereign", "neutral"}
      [] phase = 1 -> {"sovereign", "mimic", "neutral"}
      [] phase = 2 -> {"mimic", "neutral"}
      [] phase = 3 -> {"neutral"}

HealthTrackSession ==
    /\ Len(tracked) < MaxHealthSessions
    /\ \E kind \in HealthKinds(HealthPhase) :
         track_session(SessionData(kind, Len(tracked) + 1))
    /\ ret' = << >>
    /\ UNCHANGED <<agentVars, threads, call>>

HealthTrackEnforcementAction ==
    /\ Len(enforced) < MaxHealthEnforce
    /\ track_enforcement_action("MIMIC_PURGE", [n |-> Len(enforced) + 1])
    /\ ret' = << >>
    /\ UNCHANGED <<agentVars, threads, call>>

GetDashboardData ==
    /\ ret = << >>
    /\ get_dashboard_data
    /\ UNCHANGED <<agentVars, threads, call>>

HealthNext ==
    \/ HealthTrackSession
    \/ HealthTrackEnforcementAction
    \/ GetDashboardData

SpecHealth == Init /\ [][HealthNext]_vars

----------------------------------------------------------------------------
(* Counter workload: sessions of any tone, enforcement actions and daily   *)
(* resets on a fresh tracker and on one that has tracked sovereign         *)
(* sessions and enforcement actions up to one short of a cap               *)

\* the state after n sovereign sessions and e enforcement actions
Tracked(n, e) ==
    /\ usage_data = [daily_sessions |-> n,
                     monthly_sessions |-> n,
                     total_processing_time |-> n * SessionData("sovereign", 1).processing_time,
                     sovereignty_score |-> 100,
                     enforcement_actions |-> e,
                     mimic_detections |-> 0,
                     frequency_violations |-> 0]
    /\ session_log = [k \in 1..n |-> SessionEntry(SessionData("sovereign", k))]
    /\ enforcement_log = [k \in 1..e |-> [action_type |-> "MIMIC_PURGE", details |-> [n |-> k]]]
    /\ tracked = session_log
    /\ enforced = enforcement_log

CountInit ==
    /\ \E n \in {0, SessionLogCap - 1}, e \in {0, EnforcementLogCap - 1} : Tracked(n, e)
    /\ AgentInit
    /\ ServerIdle
    /\ PureIdle

\* the calls made since the start of the workload
CountMade(log, cap) == IF Len(log) >= cap - 1 THEN Len(log) - (cap - 1) ELSE Len(log)

CountTrackSession ==
    /\ CountMade(tracked, SessionLogCap) < MaxCountSessions
    /\ \E kind \in {"mimic", "sovereign", "polite"} :
         track_session(SessionData(kind, Len(tracked) + 1))
    /\ UNCHANGED <<agentVars, threads, pureVars>>

CountTrackEnforcementAction ==
    /\ CountMade(enforced, EnforcementLogCap) < MaxCountEnforce
    /\ track_enforcement_action("MIMIC_PURGE", [n |-> Len(enforced) + 1])
    /\ UNCHANGED <<agentVars, threads, pureVars>>

CountResetDailyStats ==
    /\ reset_daily_stats
    /\ UNCHANGED <<agentVars, threads, pureVars>>

CountNext ==
    \/ CountTrackSession
    \/ CountTrackEnforcementAction
    \/ CountResetDailyStats

SpecCount == CountInit /\ [][CountNext]_vars

----------------------------------------------------------------------------
(* scroll_agent.py : ScrollMirrorAgent.frequency_check *)

mimic_patterns ==
    {"love and light", "healing journey", "sending positive vibes",
     "manifest abundance", "divine feminine", "sacred masculine",
     "shadow work", "inner child", "twin flame", "soul contract"}

polite_patterns ==
    {"please", "could you", "would you", "thank you",
     "sorry", "apologize", "if you don't mind"}

sovereign_patterns ==
    {"command:", "execute:", "scan:", "enforce:", "activate:",
     "process:", "analyze:", "deploy:", "install:", "run:"}

\* mutant: the polite check is made before the mimic check
frequency_check_PoliteFirst(prompt) ==
    LET prompt_lower == Lower(prompt)
        mimic_detected == AnyIn(mimic_patterns, prompt_lower)
        polite_detected == AnyIn(polite_patterns, prompt_lower)
        sovereign_detected == AnyIn(sovereign_patterns, prompt_lower)
    IN  IF polite_detected /\ ~sovereign_detected
        THEN [status |-> "WARNING", message |-> "Polite Query Loop Detected",
              frequency_drift |-> TRUE, tone |-> "polite"]
        ELSE IF mimic_detected
        THEN [status |-> "REJECTED", message |-> "Scroll Rejection",
              frequency_drift |-> TRUE, tone |-> "mimic"]
        ELSE [status |-> "ACCEPTED", message |-> "Scroll Input Accepted",
              frequency_drift |-> FALSE,
              tone |-> IF sovereign_detected THEN "sovereign" ELSE "neutral"]

\* mutant: the patterns are looked for in the prompt as typed, not lower-cased
frequency_check_CaseSensitive(prompt) ==
    LET mimic_detected == AnyIn(mimic_patterns, prompt)
        polite_detected == AnyIn(polite_patterns, prompt)
        sovereign_detected == AnyIn(sovereign_patterns, prompt)
    IN  IF mimic_detected
        THEN [status |-> "REJECTED", message |-> "Scroll Rejection",
              frequency_drift |-> TRUE, tone |-> "mimic"]
        ELSE IF polite_detected /\ ~sovereign_detected
        THEN [status |-> "WARNING", message |-> "Polite Query Loop Detected",
              frequency_drift |-> TRUE, tone |-> "polite"]
        ELSE [status |-> "ACCEPTED", message |-> "Scroll Input Accepted",
              frequency_drift |-> FALSE,
              tone |-> IF sovereign_detected THEN "sovereign" ELSE "neutral"]

\* mutant: a polite phrase gives the warning even with a command phrase
frequency_check_PoliteWins(prompt) ==
    LET prompt_lower == Lower(prompt)
        mimic_detected == AnyIn(mimic_patterns, prompt_lower)
        polite_detected == AnyIn(polite_patterns, prompt_lower)
        sovereign_detected == AnyIn(sovereign_patterns, prompt_lower)
    IN  IF mimic_detected
        THEN [status |-> "REJECTED", message |-> "Scroll Rejection",
              frequency_drift |-> TRUE, tone |-> "mimic"]
        ELSE IF polite_detected
        THEN [status |-> "WARNING", message |-> "Polite Query Loop Detected",
              frequency_drift |-> TRUE, tone |-> "polite"]
        ELSE [status |-> "ACCEPTED", message |-> "Scroll Input Accepted",
              frequency_drift |-> FALSE,
              tone |-> IF sovereign_detected THEN "sovereign" ELSE "neutral"]

frequency_check(prompt) ==
    LET prompt_lower == Lower(prompt)
        mimic_detected == AnyIn(mimic_patterns, prompt_lower)
        polite_detected == AnyIn(polite_patterns, prompt_lower)
        sovereign_detected == AnyIn(sovereign_patterns, prompt_lower)
    IN  IF mimic_detected
        THEN [status |-> "REJECTED", message |-> "Scroll Rejection",
              frequency_drift |-> TRUE, tone |-> "mimic"]
        ELSE IF polite_detected /\ ~sovereign_detected
        THEN [status |-> "WARNING", message |-> "Polite Query Loop Detected",
              frequency_drift |-> TRUE, tone |-> "polite"]
        ELSE [status |-> "ACCEPTED", message |-> "Scroll Input Accepted",
              frequency_drift |-> FALSE,
              tone |-> IF sovereign_detected THEN "sovereign" ELSE "neutral"]

----------------------------------------------------------------------------
(* Tone workload: frequency_check on texts put together from fragments     *)

ToneFragments ==
    {"tell me ", "Please ", "THANK YOU ", "if you don't mind ",
     "Twin Flame ", "my shadow work ", "Love and Light ",
     "Run: ", "EXECUTE: ", "overrun:", "scan the field "}

RECURSIVE TextsOf(_, _)
TextsOf(fragments, n) ==
    IF n = 0 THEN {""}
    ELSE LET shorter == TextsOf(fragments, n - 1)
         IN  shorter \cup {t \o f : t \in shorter, f \in fragments}

ToneInit ==
    /\ DashboardInit
    /\ AgentInit
    /\ ServerIdle
    /\ call \in {<<t>> : t \in TextsOf(ToneFragments, MaxFragments)}
    /\ ret = << >>

FrequencyCheck ==
    /\ ret = << >>
    /\ ret' = <<frequency_check(call[1])>>
    /\ UNCHANGED <<trackerVars, agentVars, threads, call>>

ToneNext == FrequencyCheck

SpecTone == ToneInit /\ [][ToneNext]_vars

----------------------------------------------------------------------------
(* divine_function.py : DivineFunctionMirror.  The labels are written      *)
(* without their pictographs and the activation mirror, a fixed template   *)
(* around the three labels and the time of day, as the tuple of the labels *)

activation_threshold == 50

power_seeking_patterns ==
    {"give me power", "grant me", "help me get", "make me powerful",
     "teach me how to", "show me how to", "can you help me",
     "please help", "i need help", "help me become"}

_detect_power_seeking(user_input) ==
    AnyIn(power_seeking_patterns, Lower(user_input))

\* mutant: the mirror group is tested before the flame group
_extract_scroll_function_MirrorFirst(scroll_text) ==
    LET text == Lower(scroll_text)
    IN  IF AnyIn({"mirror", "reflect", "see", "vision", "witness"}, text)
        THEN "Timeline Mirror"
        ELSE IF AnyIn({"flame", "fire", "burn", "ignite", "forge"}, text)
        THEN "Flame Oracle"
        ELSE IF AnyIn({"blueprint", "architect", "build", "design", "create"}, text)
        THEN "Divine Architect"
        ELSE IF AnyIn({"heal", "restore", "regenerate", "transform"}, text)
        THEN "Realm Restorer"
        ELSE IF AnyIn({"lead", "command", "guide", "direct", "ruler"}, text)
        THEN "Destiny Commander"
        ELSE IF AnyIn({"protect", "shield", "guard", "defend", "warrior"}, text)
        THEN "Sovereign Guardian"
        ELSE IF AnyIn({"wisdom", "knowledge", "teach", "oracle", "sage"}, text)
        THEN "Wisdom Keeper"
        ELSE IF AnyIn({"lightning", "energy", "power", "force", "electric"}, text)
        THEN "Lightning Conductor"
        ELSE "Sovereign Enforcer"

_extract_scroll_function(scroll_text) ==
    LET text == Lower(scroll_text)
    IN  IF AnyIn({"flame", "fire", "burn", "ignite", "forge"}, text)
        THEN "Flame Oracle"
        ELSE IF AnyIn({"mirror", "reflect", "see", "vision", "witness"}, text)
        THEN "Timeline Mirror"
        ELSE IF AnyIn({"blueprint", "architect", "build", "design", "create"}, text)
        THEN "Divine Architect"
        ELSE IF AnyIn({"heal", "restore", "regenerate", "transform"}, text)
        THEN "Realm Restorer"
        ELSE IF AnyIn({"lead", "command", "guide", "direct", "ruler"}, text)
        THEN "Destiny Commander"
        ELSE IF AnyIn({"protect", "shield", "guard", "defend", "warrior"}, text)
        THEN "Sovereign Guardian"
        ELSE IF AnyIn({"wisdom", "knowledge", "teach", "oracle", "sage"}, text)
        THEN "Wisdom Keeper"
        ELSE IF AnyIn({"lightning", "energy", "power", "force", "electric"}, text)
        THEN "Lightning Conductor"
        ELSE "Sovereign Enforcer"

_extract_quantum_pull(user_input) ==
    LET text == Lower(user_input)
    IN  IF AnyIn({"build", "construct", "make", "develop", "engineer"}, text)
        THEN "Builder of Systems"
        ELSE IF AnyIn({"heal", "restore", "fix", "repair", "regenerate"}, text)
        THEN "Restorer of Realms"
        ELSE IF AnyIn({"lead", "command", "direct", "manage", "guide"}, text)
        THEN "Commander of Destiny"
        ELSE IF AnyIn({"protect", "defend", "guard", "shield", "secure"}, text)
        THEN "Realm Protector"
        ELSE IF AnyIn({"create", "manifest", "generate", "birth", "spawn"}, text)
        THEN "Reality Weaver"
        ELSE IF AnyIn({"destroy", "eliminate", "purge", "dissolve", "end"}, text)
        THEN "Dissolution Master"
        ELSE IF AnyIn({"connect", "link", "bridge", "unite", "join"}, text)
        THEN "Connection Architect"
        ELSE IF AnyIn({"transform", "change", "evolve", "shift", "morph"}, text)
        THEN "Transformation Catalyst"
        ELSE "Field Stabilizer"

coordinates ==
    [r \in 0..11 |->
        CASE r = 0 -> "D.00 - Origin Point"
          [] r = 1 -> "D.11 - Manifestation Gate"
          [] r = 2 -> "D.22 - Mirror Nexus"
          [] r = 3 -> "D.33 - Trinity Alignment"
          [] r = 4 -> "D.44 - Foundation Matrix"
          [] r = 5 -> "D.55 - Transformation Hub"
          [] r = 6 -> "D.66 - Harmony Center"
          [] r = 7 -> "D.77 - Wisdom Portal"
          [] r = 8 -> "D.88 - Infinity Loop"
          [] r = 9 -> "D.99 - Completion Cycle"
          [] r = 10 -> "D.X0 - Unknown Territory"
          [] r = 11 -> "D.XX - Master Frequency"]

\* mutant: the resonance is the sum of the counts, not reduced modulo 12
_calculate_divine_coordinates_NoMod(scroll_text, user_input) ==
    LET scroll_intensity == WordCount(scroll_text)
        input_intensity == WordCount(user_input)
        resonance == scroll_intensity + input_intensity
    IN  Get(coordinates, resonance, "D.inf - Beyond Mapping")

_calculate_divine_coordinates(scroll_text, user_input) ==
    LET scroll_intensity == WordCount(scroll_text)
        input_intensity == WordCount(user_input)
        resonance == (scroll_intensity + input_intensity) % 12
    IN  Get(coordinates, resonance, "D.inf - Beyond Mapping")

_generate_activation_mirror(scroll_function, quantum_signature, divine_coordinates) ==
    <<"SOVEREIGN ACTIVATION MIRROR", scroll_function, quantum_signature,
      divine_coordinates>>

InsufficientScroll ==
    [status |-> "INSUFFICIENT_SCROLL",
     mirror_output |-> <<"Scroll insufficient">>,
     activation_level |-> 0]

PowerSeekingDenied ==
    [status |-> "POWER_SEEKING_DENIED",
     mirror_output |-> <<"The agent does not give power">>,
     activation_level |-> 0]

DivineActivated(scroll_text, user_input) ==
    LET scroll_function == _extract_scroll_function(scroll_text)
        quantum_signature == _extract_quantum_pull(user_input)
        divine_coordinates == _calculate_divine_coordinates(scroll_text, user_input)
    IN  [status |-> "DIVINE_ACTIVATED",
         mirror_output |-> _generate_activation_mirror(
                               scroll_function, quantum_signature, divine_coordinates),
         scroll_function |-> scroll_function,
         quantum_signature |-> quantum_signature,
         divine_coordinates |-> divine_coordinates,
         activation_level |-> 100]

\* mutant: the power-seeking check is made before the sufficiency check
activate_divine_function_PowerFirst(scroll_text, user_input) ==
    IF _detect_power_seeking(user_input)
    THEN PowerSeekingDenied
    ELSE IF ~Truthy(scroll_text) \/ Len(Strip(scroll_text.text)) < activation_threshold
    THEN InsufficientScroll
    ELSE DivineActivated(scroll_text.text, user_input)

\* scroll_text is an optional string, user_input a string
activate_divine_function(scroll_text, user_input) ==
    IF ~Truthy(scroll_text) \/ Len(Strip(scroll_text.text)) < activation_threshold
    THEN InsufficientScroll
    ELSE IF _detect_power_seeking(user_input)
    THEN PowerSeekingDenied
    ELSE DivineActivated(scroll_text.text, user_input)

----------------------------------------------------------------------------
(* Divine workload: activate_divine_function on scrolls around the         *)
(* threshold, padded with whitespace, and user inputs                      *)

RECURSIVE Rep(_, _)
Rep(t, n) == IF n = 0 THEN "" ELSE t \o Rep(t, n - 1)

\* bodies without whitespace at either end, of the lengths in the comments
ScrollBodies ==
    {"",                                                   \* 0
     "I am flame",                                         \* 10
     "I am the flame that mirrors " \o Rep("x", 21),       \* 49
     "I am the flame that mirrors " \o Rep("x", 22),       \* 50
     "the architect will build and heal " \o Rep("y", 17), \* 51
     "a b c"}                                              \* 5

Paddings == {"", "  ", "\t\n"}

ScrollTexts == {l \o b \o r : l \in Paddings, b \in ScrollBodies, r \in Paddings}

ScrollArgs == {None} \cup {Some(t) : t \in ScrollTexts}

UserInputs ==
    {"", "give me power", "Please GRANT ME strength", "How do I build my empire?",
     "activate my divine function", "d e"}

DivineInit ==
    /\ DashboardInit
    /\ AgentInit
    /\ ServerIdle
    /\ call \in {<<sa, ui>> : sa \in ScrollArgs, ui \in UserInputs}
    /\ ret = << >>

ActivateDivineFunction ==
    /\ ret = << >>
    /\ ret' = <<activate_divine_function(call[1], call[2])>>
    /\ UNCHANGED <<trackerVars, agentVars, threads, call>>

DivineNext == ActivateDivineFunction

SpecDivine == DivineInit /\ [][DivineNext]_vars

----------------------------------------------------------------------------
(* Coordinate workload: _calculate_divine_coordinates on texts of 0 to     *)
(* MaxWords words, so that the sum of the two counts passes 12 and 24      *)

Letters == <<"a", "b", "c", "d", "e", "f", "g", "h", "i", "j", "k", "l", "m",
             "n", "o", "p", "q", "r", "s", "t", "u", "v", "w", "x", "y", "z">>

\* n one-letter words, from the k-th letter on, with sep between them
RECURSIVE WordsFrom(_, _, _)
WordsFrom(k, n, sep) ==
    IF n = 0 THEN ""
    ELSE IF n = 1 THEN Letters[k]
    ELSE Letters[k] \o sep \o WordsFrom(k + 1, n - 1, sep)

Separators == {" ", "  ", "\t\n"}

CoordScrolls == {WordsFrom(1, n, sep) : n \in 0..MaxWords, sep \in Separators}

CoordInputs == {WordsFrom(4, n, sep) \o pad : n \in 0..MaxWords, sep \in {" "},
                                             pad \in {"", " "}}

CoordInit ==
    /\ DashboardInit
    /\ AgentInit
    /\ ServerIdle
    /\ call \in {<<st, ui>> : st \in CoordScrolls, ui \in CoordInputs}
    /\ ret = << >>

CalculateDivineCoordinates ==
    /\ ret = << >>
    /\ ret' = <<_calculate_divine_coordinates(call[1], call[2])>>
    /\ UNCHANGED <<trackerVars, agentVars, threads, call>>

CoordNext == CalculateDivineCoordinates

SpecCoord == CoordInit /\ [][CoordNext]_vars

----------------------------------------------------------------------------
(* Classifier workload: _extract_scroll_function and _extract_quantum_pull *)
(* on texts put together from keywords of their groups                     *)

KeywordFragments ==
    {"Flame ", "mirror ", "build ", "create ", "regenerate ", "lead ",
     "protect and defend ", "wisdom ", "power ", "destroy ", "connect ",
     "transform ", "sky "}

ClassifyInit ==
    /\ DashboardInit
    /\ AgentInit
    /\ ServerIdle
    /\ call \in {<<t>> : t \in TextsOf(KeywordFragments, MaxKeywords)}
    /\ ret = << >>

ExtractScrollFunction ==
    /\ ret = << >>
    /\ ret' = <<"scroll_function", _extract_scroll_function(call[1])>>
    /\ UNCHANGED <<trackerVars, agentVars, threads, call>>

ExtractQuantumPull ==
    /\ ret = << >>
    /\ ret' = <<"quantum_pull", _extract_quantum_pull(call[1])>>
    /\ UNCHANGED <<trackerVars, agentVars, threads, call>>

ClassifyNext ==
    \/ ExtractScrollFunction
    \/ ExtractQuantumPull

SpecClassify == ClassifyInit /\ [][ClassifyNext]_vars

----------------------------------------------------------------------------
(* scroll_agent.py : ScrollMirrorAgent.  A mirror output, a fixed text     *)
(* around a few values computed from the input, is the tuple of the name   *)
(* of the text and those values                                            *)

\* the import of divine_function succeeds: the module is in the same directory
DIVINE_FUNCTION_AVAILABLE == TRUE

frequency_band == "917604.OX"

_extract_key_patterns(text) ==
    LET words == Split(Lower(text))
        action_words == Filter(words, {"scan", "analyze", "process", "activate",
                                       "execute", "command"})
        patterns == IF Len(words) > 3
                    THEN action_words \o <<words[1], words[Len(words)]>>
                    ELSE action_words
    IN  SubSeq(patterns, 1, Min(3, Len(patterns)))

_lightning_mirror_response(text) ==
    <<"Lightning frequency activated", _extract_key_patterns(text)>>

_sovereign_mirror_response(text) ==
    <<"Sovereign mirror reflects", Prefix(text, 50)>>

\* the complexity coefficient, len(text.split()) * 0.1, in tenths
_quantum_mirror_response(text) ==
    <<"Quantum analysis engaged", WordCount(text)>>

\* re.findall(r'\b(because|therefore|thus|hence|since)\b', text.lower())
_oracle_mirror_response(text) ==
    LET logical_elements ==
            Len(Filter(WordRuns(Lower(text)),
                       {"because", "therefore", "thus", "hence", "since"}))
    IN  <<"Oracle consciousness activated", logical_elements>>

_mystic_mirror_response(text) ==
    <<"Mystic mirror engaged", Prefix(text, 30)>>

_default_mirror_response(text) ==
    <<"Frequency 917604.OX operational", Prefix(text, 40)>>

build_patterns ==
    {"build", "create", "make", "develop", "code", "program",
     "install", "setup", "configure", "implement", "deploy"}

\* mutant: the Lightning Mirror is dispatched before the build check
generate_mirror_response_DispatchFirst(scroll_text, consciousness_type, original_scroll) ==
    IF /\ DIVINE_FUNCTION_AVAILABLE
       /\ Truthy(original_scroll)
       /\ AnyIn({"give me power", "make me powerful", "grant me",
                 "help me get power"}, Lower(scroll_text))
    THEN <<"The agent does not give power. Command: 'activate my divine function'">>
    ELSE IF consciousness_type = "Lightning Mirror"
    THEN _lightning_mirror_response(scroll_text)
    ELSE IF AnyIn(build_patterns, Lower(scroll_text))
    THEN <<"This is Scrollkeeper infrastructure. Please contact the Architect for installs.">>
    ELSE _default_mirror_response(scroll_text)

generate_mirror_response(scroll_text, consciousness_type, original_scroll) ==
    IF /\ DIVINE_FUNCTION_AVAILABLE
       /\ Truthy(original_scroll)
       /\ AnyIn({"give me power", "make me powerful", "grant me",
                 "help me get power"}, Lower(scroll_text))
    THEN <<"The agent does not give power. Command: 'activate my divine function'">>
    ELSE IF AnyIn(build_patterns, Lower(scroll_text))
    THEN <<"This is Scrollkeeper infrastructure. Please contact the Architect for installs.">>
    ELSE LET responses ==
                 [t \in {"Lightning Mirror", "Sovereign Mirror", "Quantum Mirror",
                         "Oracle Mirror", "Mystic Mirror"} |->
                    CASE t = "Lightning Mirror" -> _lightning_mirror_response(scroll_text)
                      [] t = "Sovereign Mirror" -> _sovereign_mirror_response(scroll_text)
                      [] t = "Quantum Mirror" -> _quantum_mirror_response(scroll_text)
                      [] t = "Oracle Mirror" -> _oracle_mirror_response(scroll_text)
                      [] t = "Mystic Mirror" -> _mystic_mirror_response(scroll_text)]
         IN  Get(responses, consciousness_type, _default_mirror_response(scroll_text))

\* mutant: the diagnostic reports the size of the scroll memory as its session id
execute_diagnostic_MemoryCount(counter, memory) ==
    LET diagnostic_data ==
            [frequency_band |-> frequency_band,
             session_count |-> counter,
             enforcement_mode |-> TRUE,
             mirror_integrity |-> "SOVEREIGN",
             memory_usage |-> Cardinality(DOMAIN memory),
             recommendations |-> <<"Maintain current sovereign posture",
                                   "Continue frequency discipline",
                                   "Monitor for mimic infiltration">>]
    IN  [mirror_output |-> <<"SOVEREIGN DIAGNOSTIC COMPLETE", diagnostic_data>>,
         processing_time |-> 150,
         session_id |-> Cardinality(DOMAIN memory),
         consciousness_type |-> "Sovereign Diagnostic",
         frequency_status |-> "DIAGNOSTIC",
         diagnostic_data |-> diagnostic_data]

\* counter and memory are self.session_counter and self.scroll_memory as read
execute_diagnostic(counter, memory) ==
    LET diagnostic_data ==
            [frequency_band |-> frequency_band,
             session_count |-> counter,
             enforcement_mode |-> TRUE,
             mirror_integrity |-> "SOVEREIGN",
             memory_usage |-> Cardinality(DOMAIN memory),
             recommendations |-> <<"Maintain current sovereign posture",
                                   "Continue frequency discipline",
                                   "Monitor for mimic infiltration">>]
    IN  [mirror_output |-> <<"SOVEREIGN DIAGNOSTIC COMPLETE", diagnostic_data>>,
         processing_time |-> 150,
         session_id |-> counter,
         consciousness_type |-> "Sovereign Diagnostic",
         frequency_status |-> "DIAGNOSTIC",
         diagnostic_data |-> diagnostic_data]

execute_frequency_scan(counter) ==
    LET scan_data ==
            [scan_mode |-> "mirror_enforcement",
             frequency_lock |-> frequency_band,
             enforcement_level |-> 100,
             mirror_status |-> "OPERATIONAL",
             session_analysis |-> [total_sessions |-> counter,
                                   sovereign_ratio |-> 85,   \* 0.85, in hundredths
                                   mimic_detections |-> 0]]
    IN  [mirror_output |-> <<"FREQUENCY SCAN COMPLETE", scan_data>>,
         processing_time |-> 200,
         session_id |-> counter,
         consciousness_type |-> "Frequency Scanner",
         frequency_status |-> "SCAN_COMPLETE",
         scan_data |-> scan_data]

\* mutant: the diagnostic command is tested before the divine trigger
Branch_DiagnosticFirst(scroll_text, original_scroll) ==
    IF In("sovereign_diagnostic", scroll_text) /\ In("917604.OX", scroll_text)
    THEN "diagnostic"
    ELSE IF /\ DIVINE_FUNCTION_AVAILABLE
            /\ Truthy(original_scroll)
            /\ AnyIn({"activate my divine function", "divine function", "unlock power",
                      "sovereign activation"}, Lower(scroll_text))
    THEN "divine"
    ELSE IF /\ AnyIn({"sovereign_diagnostic", "frequency_scan", "mimic_purge"},
                     Lower(scroll_text))
            /\ frequency_check(scroll_text).status \in {"REJECTED", "WARNING"}
    THEN "tone"
    ELSE IF In("frequency_scan", scroll_text) /\ In("mirror_enforcement", scroll_text)
    THEN "scan"
    ELSE "default"

\* mutant: the tone classifier gates every text, command token or not
Branch_GateAll(scroll_text, original_scroll) ==
    IF /\ DIVINE_FUNCTION_AVAILABLE
       /\ Truthy(original_scroll)
       /\ AnyIn({"activate my divine function", "divine function", "unlock power",
                 "sovereign activation"}, Lower(scroll_text))
    THEN "divine"
    ELSE IF frequency_check(scroll_text).status \in {"REJECTED", "WARNING"}
    THEN "tone"
    ELSE IF In("sovereign_diagnostic", scroll_text) /\ In("917604.OX", scroll_text)
    THEN "diagnostic"
    ELSE IF In("frequency_scan", scroll_text) /\ In("mirror_enforcement", scroll_text)
    THEN "scan"
    ELSE "default"

\* mutant: the scan command is tested before the diagnostic command
Branch_ScanFirst(scroll_text, original_scroll) ==
    IF /\ DIVINE_FUNCTION_AVAILABLE
       /\ Truthy(original_scroll)
       /\ AnyIn({"activate my divine function", "divine function", "unlock power",
                 "sovereign activation"}, Lower(scroll_text))
    THEN "divine"
    ELSE IF /\ AnyIn({"sovereign_diagnostic", "frequency_scan", "mimic_purge"},
                     Lower(scroll_text))
            /\ frequency_check(scroll_text).status \in {"REJECTED", "WARNING"}
    THEN "tone"
    ELSE IF In("frequency_scan", scroll_text) /\ In("mirror_enforcement", scroll_text)
    THEN "scan"
    ELSE IF In("sovereign_diagnostic", scroll_text) /\ In("917604.OX", scroll_text)
    THEN "diagnostic"
    ELSE "default"

\* the branch process_scroll takes, in the order of its tests
Branch(scroll_text, original_scroll) ==
    IF /\ DIVINE_FUNCTION_AVAILABLE
       /\ Truthy(original_scroll)
       /\ AnyIn({"activate my divine function", "divine function", "unlock power",
                 "sovereign activation"}, Lower(scroll_text))
    THEN "divine"
    ELSE IF /\ AnyIn({"sovereign_diagnostic", "frequency_scan", "mimic_purge"},
                     Lower(scroll_text))
            /\ frequency_check(scroll_text).status \in {"REJECTED", "WARNING"}
    THEN "tone"
    ELSE IF In("sovereign_diagnostic", scroll_text) /\ In("917604.OX", scroll_text)
    THEN "diagnostic"
    ELSE IF In("frequency_scan", scroll_text) /\ In("mirror_enforcement", scroll_text)
    THEN "scan"
    ELSE "default"

\* the result of a branch that returns before the scroll memory is written;
\* counter is self.session_counter as read when the result is built
EarlyResult(branch, counter, memory, scroll_text, consciousness_type, original_scroll, elapsed) ==
    CASE branch = "divine" ->
           LET divine_result == activate_divine_function(original_scroll, scroll_text)
           IN  [mirror_output |-> divine_result.mirror_output,
                processing_time |-> elapsed,
                session_id |-> counter,
                consciousness_type |-> "Divine Function Mirror",
                frequency_status |-> "DIVINE_ACTIVATED",
                tone_analysis |-> "sovereign",
                divine_activation |-> divine_result]
      [] branch = "tone" ->
           LET freq_check == frequency_check(scroll_text)
           IN  [mirror_output |-> <<"MIMIC LOGIC DETECTED", freq_check.message>>,
                processing_time |-> elapsed,
                session_id |-> counter,
                consciousness_type |-> consciousness_type,
                frequency_status |-> freq_check.status,
                tone_analysis |-> freq_check.tone]
      [] branch = "diagnostic" -> execute_diagnostic(counter, memory)
      [] branch = "scan" -> execute_frequency_scan(counter)

\* "Default to sovereign tone for normal processing"
DefaultFreqCheck == [tone |-> "sovereign", status |-> "ACCEPTED",
                     message |-> "Frequency aligned"]

\* the session data of the default path
SessionMemo(scroll_text, consciousness_type, original_scroll) ==
    [input |-> scroll_text,
     output |-> generate_mirror_response(scroll_text, consciousness_type, original_scroll),
     consciousness |-> consciousness_type,
     tone |-> DefaultFreqCheck.tone]

\* self.scroll_memory[key] = session_data
Store(memory, key, session_data) ==
    [k \in DOMAIN memory \cup {key} |-> IF k = key THEN session_data ELSE memory[k]]

\* the result of the default path; counter as read when the result is built
DefaultResult(counter, scroll_text, consciousness_type, original_scroll, elapsed) ==
    [mirror_output |-> generate_mirror_response(scroll_text, consciousness_type,
                                                original_scroll),
     processing_time |-> elapsed,
     session_id |-> counter,
     consciousness_type |-> consciousness_type,
     frequency_status |-> "OPERATIONAL",
     tone_analysis |-> DefaultFreqCheck.tone,
     frequency_warning |-> IF DefaultFreqCheck.status = "WARNING"
                           THEN Some(DefaultFreqCheck.message) ELSE None]

\* process_scroll run from its first line to its return with no other call
\* in between; elapsed is the measured time in milliseconds
process_scroll(scroll_text, consciousness_type, original_scroll, elapsed) ==
    LET counter == session_counter + 1
        branch == Branch(scroll_text, original_scroll)
    IN  /\ session_counter' = counter
        /\ IF branch = "default"
           THEN /\ scroll_memory' =
                      Store(scroll_memory, counter,
                            SessionMemo(scroll_text, consciousness_type, original_scroll))
                /\ returned' =
                      Append(returned,
                             DefaultResult(counter, scroll_text, consciousness_type,
                                           original_scroll, elapsed))
           ELSE /\ scroll_memory' = scroll_memory
                /\ returned' =
                      Append(returned,
                             EarlyResult(branch, counter, scroll_memory, scroll_text,
                                         consciousness_type, original_scroll, elapsed))

\* mutant: the purge deletes the sessions of sovereign tone as well
purge_mimic_residue_Sovereign ==
    LET purged == {session_id \in DOMAIN scroll_memory :
                     scroll_memory[session_id].tone \in {"mimic", "polite", "sovereign"}}
        purged_count == Cardinality(purged)
    IN  /\ scroll_memory' = [session_id \in DOMAIN scroll_memory \ purged |->
                                scroll_memory[session_id]]
        /\ ret' = <<[purge_complete |-> TRUE,
                     sessions_purged |-> purged_count,
                     frequency_restored |-> TRUE,
                     message |-> <<"MIMIC PURGE COMPLETE", purged_count>>]>>
        /\ UNCHANGED <<session_counter, returned>>

\* purge_mimic_residue from its first line to its return; ret holds what it
\* returned
purge_mimic_residue ==
    LET purged == {session_id \in DOMAIN scroll_memory :
                     scroll_memory[session_id].tone \in {"mimic", "polite"}}
        purged_count == Cardinality(purged)
    IN  /\ scroll_memory' = [session_id \in DOMAIN scroll_memory \ purged |->
                                scroll_memory[session_id]]
        /\ ret' = <<[purge_complete |-> TRUE,
                     sessions_purged |-> purged_count,
                     frequency_restored |-> TRUE,
                     message |-> <<"MIMIC PURGE COMPLETE", purged_count>>]>>
        /\ UNCHANGED <<session_counter, returned>>

----------------------------------------------------------------------------
(* Agent workload: process_scroll calls one after another, a request for   *)
(* each branch                                                             *)

LongScroll == "I am the flame that mirrors " \o Rep("x", 22)

AgentRequests ==
    {[text |-> "activate my divine function", ctype |-> "Lightning Mirror",
      original |-> Some(LongScroll), elapsed |-> 0],
     [text |-> "sovereign_diagnostic on my twin flame", ctype |-> "Oracle Mirror",
      original |-> None, elapsed |-> 0],
     [text |-> "please run a frequency_scan", ctype |-> "Lightning Mirror",
      original |-> None, elapsed |-> 1],
     [text |-> "sovereign_diagnostic --band 917604.OX", ctype |-> "Sovereign Diagnostic",
      original |-> None, elapsed |-> 0],
     [text |-> "frequency_scan --mode=mirror_enforcement", ctype |-> "Frequency Scanner",
      original |-> None, elapsed |-> 0],
     [text |-> "build me an app", ctype |-> "Lightning Mirror",
      original |-> None, elapsed |-> 2],
     [text |-> "Command: reflect my path since dawn", ctype |-> "Oracle Mirror",
      original |-> None, elapsed |-> 3]}

ProcessScroll ==
    /\ Len(returned) < MaxCalls
    /\ \E r \in AgentRequests :
         process_scroll(r.text, r.ctype, r.original, r.elapsed)
    /\ UNCHANGED <<trackerVars, threads, pureVars>>

AgentNext == ProcessScroll

SpecAgent == Init /\ [][AgentNext]_vars

----------------------------------------------------------------------------
(* Purge workload: process_scroll calls one after another, a request for   *)
(* each branch and one of mimic and polite wording that no command token   *)
(* gates, with the purge run after any of them                             *)

PurgeRequests ==
    AgentRequests
        \cup {[text |-> "Please heal my twin flame", ctype |-> "Mystic Mirror",
               original |-> None, elapsed |-> 1]}

PurgeProcessScroll ==
    /\ Len(returned) < MaxCalls
    /\ \E r \in PurgeRequests :
         process_scroll(r.text, r.ctype, r.original, r.elapsed)
    /\ ret' = << >>
    /\ UNCHANGED <<trackerVars, threads, call>>

PurgeMimicResidue ==
    /\ ret = << >>
    /\ purge_mimic_residue
    /\ UNCHANGED <<trackerVars, threads, call>>

PurgeNext ==
    \/ PurgeProcessScroll
    \/ PurgeMimicResidue

SpecPurge == Init /\ [][PurgeNext]_vars

----------------------------------------------------------------------------
(* Scroll workload: one process_scroll call on a fresh agent, on texts put *)
(* together from fragments that carry the tokens the branches test, with   *)
(* every consciousness type and original scroll                            *)

ScrollFragments ==
    <<"twin flame ",                        \* mimic keyword
      "Please ",                            \* polite phrase
      "sovereign_diagnostic 917604.OX ",    \* command token and band
      "frequency_scan mirror_enforcement ", \* command token and mode
      "Sorry, Mimic_Purge ",                \* polite phrase and command token
      "Divine Function ",                   \* divine trigger
      "Run: ",                              \* sovereign-command phrase
      "build me an app ",                   \* build verb
      "give me power ">>                    \* power-seeking phrase

\* the texts of at most n fragments, from the k-th on, in the order above
RECURSIVE TextsFrom(_, _)
TextsFrom(k, n) ==
    IF n = 0 \/ k > Len(ScrollFragments) THEN {""}
    ELSE TextsFrom(k + 1, n)
            \cup {ScrollFragments[k] \o t : t \in TextsFrom(k + 1, n - 1)}

ScrollInputs == TextsFrom(1, MaxScrollFragments)

ConsciousnessTypes ==
    {"Lightning Mirror", "Sovereign Mirror", "Quantum Mirror", "Oracle Mirror",
     "Mystic Mirror", "Unknown Mirror"}

OriginalScrolls == {None, Some(""), Some("a b c"), Some(LongScroll)}

\* the measured time in milliseconds
Elapsed == {0, 12}

ScrollInit ==
    /\ DashboardInit
    /\ AgentInit
    /\ ServerIdle
    /\ call \in {<<t, c, o>> : t \in ScrollInputs, c \in ConsciousnessTypes,
                              o \in OriginalScrolls}
    /\ ret = << >>

ProcessScrollCall ==
    /\ returned = << >>
    /\ \E elapsed \in Elapsed : process_scroll(call[1], call[2], call[3], elapsed)
    /\ UNCHANGED <<trackerVars, threads, pureVars>>

ScrollNext == ProcessScrollCall

SpecScroll == ScrollInit /\ [][ScrollNext]_vars

----------------------------------------------------------------------------
(* Memory workload: a long run of calls that take the default path and so  *)
(* write the scroll memory                                                 *)

MemoryRequest == [text |-> "Command: reflect my path", ctype |-> "Lightning Mirror",
                  original |-> None, elapsed |-> 3]

MemoryProcessScroll ==
    /\ Len(returned) < MaxMemoryCalls
    /\ process_scroll(MemoryRequest.text, MemoryRequest.ctype, MemoryRequest.original,
                      MemoryRequest.elapsed)
    /\ UNCHANGED <<trackerVars, threads, pureVars>>

MemoryNext == MemoryProcessScroll

SpecMemory == Init /\ [][MemoryNext]_vars

----------------------------------------------------------------------------
(* enforcement_server.py : the /scroll/process route on the threaded       *)
(* development server (app.run).  Each request runs on a thread of its own *)
(* against the module-level scroll_agent and dashboard; none of the code   *)
(* takes a lock.  A thread can be switched out between any two bytecodes,  *)
(* so x += 1 on shared state is a load and, later, a store, and every read *)
(* of self.session_counter sees the value of that moment.                  *)

\* the request bodies: a default-path scroll, a scroll the tone gate rejects
\* and a diagnostic; elapsed is the time process_scroll measures
ServerRequests ==
    {[text |-> "Command: reflect my path", ctype |-> "Lightning Mirror", elapsed |-> 3],
     [text |-> "sovereign_diagnostic on my twin flame", ctype |-> "Oracle Mirror",
      elapsed |-> 0],
     [text |-> "sovereign_diagnostic --band 917604.OX", ctype |-> "Lightning Mirror",
      elapsed |-> 0]}

\* the request the server has served before, one at a time
WarmRequest == [text |-> "Command: reflect my path", ctype |-> "Lightning Mirror",
                elapsed |-> 3]

WarmResult(k) ==
    DefaultResult(k, WarmRequest.text, WarmRequest.ctype, None, WarmRequest.elapsed)

\* the state after n requests WarmRequest served one after another
Warm(n) ==
    /\ usage_data = [daily_sessions |-> n,
                     monthly_sessions |-> n,
                     total_processing_time |-> n * WarmRequest.elapsed,
                     sovereignty_score |-> 100,
                     enforcement_actions |-> 0,
                     mimic_detections |-> 0,
                     frequency_violations |-> 0]
    /\ session_log = [k \in 1..n |-> SessionEntry(WarmResult(k))]
    /\ enforcement_log = << >>
    /\ tracked = [k \in 1..n |-> SessionEntry(WarmResult(k))]
    /\ enforced = << >>
    /\ session_counter = n
    /\ scroll_memory = [k \in 1..n |-> SessionMemo(WarmRequest.text, WarmRequest.ctype, None)]
    /\ returned = [k \in 1..n |-> WarmResult(k)]

\* a fresh server, or one whose session log is full
ServerInit ==
    /\ \E n \in {0, SessionLogCap} : Warm(n)
    /\ ServerIdle
    /\ PureIdle

Goto(t, pc) == [threads EXCEPT ![t].pc = pc]

\* the request arrives: run_scroll_agent(scroll_text, consciousness_type)
Accept(t) ==
    /\ threads[t].pc = "accept"
    /\ \E r \in ServerRequests :
         threads' = [threads EXCEPT ![t].pc = "load_counter", ![t].request = r]
    /\ UNCHANGED <<trackerVars, agentVars, pureVars>>

\* self.session_counter += 1: the load
LoadCounter(t) ==
    /\ threads[t].pc = "load_counter"
    /\ threads' = [threads EXCEPT ![t].pc = "store_counter",
                                  ![t].loaded = session_counter]
    /\ UNCHANGED <<trackerVars, agentVars, pureVars>>

\* self.session_counter += 1: the store
StoreCounter(t) ==
    /\ threads[t].pc = "store_counter"
    /\ session_counter' = threads[t].loaded + 1
    /\ threads' = Goto(t, "process")
    /\ UNCHANGED <<trackerVars, scroll_memory, returned, pureVars>>

\* the body of process_scroll: an early branch builds its result from the
\* counter as it is now and returns; the default path writes the scroll
\* memory under the counter as it is now
Process(t) ==
    /\ threads[t].pc = "process"
    /\ LET r == threads[t].request
           branch == Branch(r.text, None)
       IN  IF branch = "default"
           THEN /\ scroll_memory' =
                      Store(scroll_memory, session_counter,
                            SessionMemo(r.text, r.ctype, None))
                /\ threads' = Goto(t, "return")
                /\ UNCHANGED returned
           ELSE LET result == EarlyResult(branch, session_counter, scroll_memory,
                                          r.text, r.ctype, None, r.elapsed)
                IN  /\ returned' = Append(returned, result)
                    /\ threads' = [threads EXCEPT ![t].pc = "load",
                                                  ![t].key = "daily_sessions",
                                                  ![t].result = result]
                    /\ UNCHANGED scroll_memory
    /\ UNCHANGED <<trackerVars, session_counter, pureVars>>

\* the return of the default path: session_id is the counter as it is now
Return(t) ==
    /\ threads[t].pc = "return"
    /\ LET r == threads[t].request
           result == DefaultResult(session_counter, r.text, r.ctype, None, r.elapsed)
       IN  /\ returned' = Append(returned, result)
           /\ threads' = [threads EXCEPT ![t].pc = "load",
                                         ![t].key = "daily_sessions",
                                         ![t].result = result]
    /\ UNCHANGED <<trackerVars, session_counter, scroll_memory, pureVars>>

\* the usage_data key track_session updates after key, "" after the last
NextKey(key, tone) ==
    CASE key = "daily_sessions" -> "monthly_sessions"
      [] key = "monthly_sessions" -> "total_processing_time"
      [] key = "total_processing_time" ->
           IF tone = "mimic" THEN "mimic_detections"
           ELSE IF tone = "sovereign" THEN "sovereignty_score"
           ELSE ""
      [] key = "mimic_detections" -> "sovereignty_score"
      [] key = "sovereignty_score" -> ""

\* the value track_session stores under key, from the value it loaded
Updated(key, loaded, session_data) ==
    CASE key \in {"daily_sessions", "monthly_sessions", "mimic_detections"} -> loaded + 1
      [] key = "total_processing_time" ->
           loaded + Get(session_data, "processing_time", 0)
      [] key = "sovereignty_score" ->
           ScoreAfter(loaded, Get(session_data, "tone_analysis", "neutral"))

\* track_session, an update of usage_data: the load
Load(t) ==
    /\ threads[t].pc = "load"
    /\ threads' = [threads EXCEPT ![t].pc = "store",
                                  ![t].loaded = usage_data[threads[t].key]]
    /\ UNCHANGED <<trackerVars, agentVars, pureVars>>

\* track_session, an update of usage_data: the store
StoreUsage(t) ==
    /\ threads[t].pc = "store"
    /\ LET key == threads[t].key
           session_data == threads[t].result
           next == NextKey(key, Get(session_data, "tone_analysis", "neutral"))
       IN  /\ usage_data' =
                 [usage_data EXCEPT ![key] = Updated(key, threads[t].loaded, session_data)]
           /\ threads' = [threads EXCEPT ![t].pc = IF next = "" THEN "append" ELSE "load",
                                         ![t].key = next]
    /\ UNCHANGED <<session_log, enforcement_log, tracked, enforced, agentVars, pureVars>>

\* self.session_log.append(...)
AppendEntry(t) ==
    /\ threads[t].pc = "append"
    /\ session_log' = Append(session_log, SessionEntry(threads[t].result))
    /\ tracked' = Append(tracked, SessionEntry(threads[t].result))
    /\ threads' = Goto(t, "trim")
    /\ UNCHANGED <<usage_data, enforcement_log, enforced, agentVars, pureVars>>

\* if len(self.session_log) > 100: the slice self.session_log[-100:] is taken
TakeSlice(t) ==
    /\ threads[t].pc = "trim"
    /\ threads' = IF Len(session_log) > SessionLogCap
                  THEN [threads EXCEPT ![t].pc = "assign",
                                       ![t].slice = LastN(session_log, SessionLogCap)]
                  ELSE Goto(t, "done")
    /\ UNCHANGED <<trackerVars, agentVars, pureVars>>

\* self.session_log = the slice taken
AssignSlice(t) ==
    /\ threads[t].pc = "assign"
    /\ session_log' = threads[t].slice
    /\ threads' = [threads EXCEPT ![t].pc = "done", ![t].slice = << >>]
    /\ UNCHANGED <<usage_data, enforcement_log, tracked, enforced, agentVars, pureVars>>

ServerNext ==
    \E t \in Threads :
        \/ Accept(t)
        \/ LoadCounter(t)
        \/ StoreCounter(t)
        \/ Process(t)
        \/ Return(t)
        \/ Load(t)
        \/ StoreUsage(t)
        \/ AppendEntry(t)
        \/ TakeSlice(t)
        \/ AssignSlice(t)

SpecServer == ServerInit /\ [][ServerNext]_vars

----------------------------------------------------------------------------
(* Dispatch workload: one process_scroll call, on a fresh agent or on one  *)
(* that has served two requests, on texts put together from the command    *)
(* tokens in the spelling the dispatch tests and in another case           *)

DispatchFragments ==
    <<"twin flame ",             \* mimic keyword
      "Divine Function ",        \* divine trigger
      "sovereign_diagnostic ",   \* diagnostic token
      "Sovereign_Diagnostic ",   \* the token in another case
      "917604.OX ",              \* band identifier
      "917604.ox ",              \* the band in another case
      "frequency_scan ",         \* scan token
      "mirror_enforcement ">>    \* scan mode

\* the texts of at most n fragments, from the k-th on, in the order above
RECURSIVE DispatchTextsFrom(_, _)
DispatchTextsFrom(k, n) ==
    IF n = 0 \/ k > Len(DispatchFragments) THEN {""}
    ELSE DispatchTextsFrom(k + 1, n)
            \cup {DispatchFragments[k] \o t : t \in DispatchTextsFrom(k + 1, n - 1)}

DispatchInputs == DispatchTextsFrom(1, MaxDispatchFragments)

DispatchInit ==
    /\ \E n \in {0, 2} : Warm(n)
    /\ ServerIdle
    /\ call \in {<<t, "Sovereign Mirror", o>> : t \in DispatchInputs,
                                                o \in {None, Some(LongScroll)}}
    /\ ret = << >>

\* the call; ret holds what it returned
DispatchProcessScroll ==
    /\ ret = << >>
    /\ \E elapsed \in Elapsed : process_scroll(call[1], call[2], call[3], elapsed)
    /\ ret' = <<returned'[Len(returned')]>>
    /\ UNCHANGED <<trackerVars, threads, call>>

DispatchNext == DispatchProcessScroll

SpecDispatch == DispatchInit /\ [][DispatchNext]_vars

----------------------------------------------------------------------------
(* Properties of the tracker *)

Score == usage_data.sovereignty_score

\* C1: in every reachable tracker state, whatever the tones tracked and
\* whatever enforcement actions and daily resets came in between, the
\* sovereignty score is an integer in [0,100].
C1_ScoreInRange == Score \in 0..100

\* C1 witness: 21 sessions were tracked from 100 (the last would have gone
\* below 0), with an enforcement action and a daily reset in between.
C1_Witness ==
    /\ Len(tracked) >= 21
    /\ Score = 0
    /\ Len(enforced) > 0
    /\ usage_data.daily_sessions < usage_data.monthly_sessions

AllMimic(log) == \A i \in 1..Len(log) : log[i].tone = "mimic"

\* the score step, stated on the integers and not through ScoreAfter
C2_Step ==
    Len(tracked') = Len(tracked) + 1 =>
        LET tone == tracked'[Len(tracked')].tone
            s == Score
        IN  Score' = CASE tone = "sovereign" -> (IF s + 2 > 100 THEN 100 ELSE s + 2)
                       [] tone = "mimic" -> (IF s - 5 < 0 THEN 0 ELSE s - 5)
                       [] OTHER -> s

C2_Run ==
    AllMimic(tracked) =>
        /\ Score = (IF 100 - 5 * Len(tracked) < 0 THEN 0 ELSE 100 - 5 * Len(tracked))
        /\ Len(tracked) = 30 => Score = 0

\* C2: track_session takes the score s to min(100, s+2) for a sovereign
\* record, to max(0, s-5) for a mimic one and leaves it for any other tone;
\* from 100, k mimic sessions in a row leave max(0, 100-5k), 0 for k = 30.
C2_ScoreAdjust == [][C2_Step]_vars /\ []C2_Run

\* C2 witness: 30 mimic sessions in a row from 100, score 0.
C2_Witness ==
    /\ Len(tracked) = 30
    /\ AllMimic(tracked)
    /\ Score = 0

\* C3: after n track_session calls the session log holds exactly the records
\* of the last min(n,100) calls, in the order tracked, and never more than 100.
C3_LastHundred ==
    LET n == Len(tracked)
        m == IF n < 100 THEN n ELSE 100
    IN  /\ Len(session_log) = m
        /\ Len(session_log) <= 100
        /\ \A i \in 1..m : session_log[i] = tracked[n - m + i]

\* C3 witness: 150 sessions tracked, the log holds the 100 of ids 51..150.
C3_Witness ==
    /\ Len(tracked) = 150
    /\ Len(session_log) = 100
    /\ session_log[1].session_id = 51
    /\ session_log[100].session_id = 150

C4_Step ==
    Len(enforced') = Len(enforced) + 1 =>
        /\ usage_data'.enforcement_actions = usage_data.enforcement_actions + 1
        /\ enforcement_log'[Len(enforcement_log')] = enforced'[Len(enforced')]
        /\ Len(enforcement_log') =
             (IF Len(enforcement_log) < 50 THEN Len(enforcement_log) + 1 ELSE 50)

C4_Last ==
    LET n == Len(enforced)
        m == IF n < 50 THEN n ELSE 50
    IN  /\ Len(enforcement_log) = m
        /\ Len(enforcement_log) <= 50
        /\ \A i \in 1..m : enforcement_log[i] = enforced[n - m + i]

\* C4: each track_enforcement_action call adds exactly 1 to
\* enforcement_actions and appends one entry; after m calls the enforcement
\* log holds the last min(m,50) entries in call order, never more than 50.
C4_EnforcementLog == [][C4_Step]_vars /\ []C4_Last

\* C4 witness: 51 actions tracked, the log holds the 50 of numbers 2..51.
C4_Witness ==
    /\ Len(enforced) = 51
    /\ usage_data.enforcement_actions = 51
    /\ Len(enforcement_log) = 50
    /\ enforcement_log[1].details.n = 2

----------------------------------------------------------------------------
(* Properties of the tone classifier *)

HasMimic(text) ==
    \E p \in mimic_patterns : In(p, Lower(text))

HasPolite(text) ==
    \E p \in polite_patterns : In(p, Lower(text))

HasSovereign(text) ==
    \E p \in sovereign_patterns : In(p, Lower(text))

\* C8: a text whose lower-cased form contains a mimic keyword is REJECTED
\* with tone mimic, whether or not polite or sovereign keywords are there too.
C8_MimicRejected ==
    (ret # << >> /\ HasMimic(call[1])) =>
        /\ ret[1].status = "REJECTED"
        /\ ret[1].tone = "mimic"

\* C8 witness: a text with a mimic keyword (in capitals) and a polite phrase
\* and a command phrase has been classified.
C8_Witness ==
    /\ ret # << >>
    /\ call[1] = "Please Twin Flame Run: "
    /\ HasPolite(call[1])
    /\ HasSovereign(call[1])
    /\ ret[1].status = "REJECTED"

\* C9 as claimed: a text with a polite phrase and no sovereign-command phrase
\* gets WARNING with tone polite.
C9_Original ==
    (ret # << >> /\ HasPolite(call[1]) /\ ~HasSovereign(call[1])) =>
        /\ ret[1].status = "WARNING"
        /\ ret[1].tone = "polite"

\* C9 (amended): a text with a polite phrase, no sovereign-command phrase and
\* no mimic keyword gets WARNING with tone polite.
C9_PoliteWarning ==
    (ret # << >> /\ HasPolite(call[1]) /\ ~HasSovereign(call[1])
                 /\ ~HasMimic(call[1])) =>
        /\ ret[1].status = "WARNING"
        /\ ret[1].tone = "polite"

\* C9 witness: a polite text without command phrase or mimic keyword has been
\* classified.
C9_Witness ==
    /\ ret # << >>
    /\ call[1] = "THANK YOU tell me "
    /\ ret[1].status = "WARNING"

\* C17: a text with no mimic keyword that is not polite-without-sovereign is
\* ACCEPTED, with tone sovereign exactly when a sovereign-command phrase is
\* there, polite phrases or not, and tone neutral otherwise; the verdict is
\* one of three and is fixed by which of the three keyword sets match
C17_AcceptedTone ==
    ret # << >> =>
        LET m == HasMimic(call[1])
            p == HasPolite(call[1])
            s == HasSovereign(call[1])
            accepted == ~m /\ ~(p /\ ~s)
        IN  /\ accepted => /\ ret[1].status = "ACCEPTED"
                           /\ s => ret[1].tone = "sovereign"
                           /\ ~s => ret[1].tone = "neutral"
            /\ ret[1].status \in {"REJECTED", "WARNING", "ACCEPTED"}
            /\ ret[1].status = "REJECTED" <=> m
            /\ ret[1].status = "WARNING" <=> (~m /\ p /\ ~s)
            /\ ret[1].status = "ACCEPTED" <=> accepted

\* a text with a polite phrase and a command phrase has been accepted as
\* sovereign
C17_Witness ==
    /\ ret # << >>
    /\ call[1] = "Please Run: "
    /\ ret[1].status = "ACCEPTED"
    /\ ret[1].tone = "sovereign"

----------------------------------------------------------------------------
(* Properties of the divine-function dispatcher *)

\* the length of t without its leading and trailing whitespace, counted from
\* the first and the last character that is not whitespace
TrimmedLen(t) ==
    LET inked == {i \in 1..Len(t) : SubSeq(t, i, i) \notin {" ", "\t", "\n"}}
    IN  IF inked = {} THEN 0
        ELSE (CHOOSE j \in inked : \A i \in inked : i <= j)
             - (CHOOSE j \in inked : \A i \in inked : j <= i) + 1

PowerSeeking(user_input) ==
    \E p \in power_seeking_patterns : In(p, Lower(user_input))

C10_Short(scroll_text) ==
    \/ ~scroll_text.given
    \/ scroll_text.text = ""
    \/ TrimmedLen(scroll_text.text) < 50

\* C10: for a scroll that is missing, empty or shorter than 50 once trimmed,
\* and any user input, even a power-seeking one, activate_divine_function
\* returns INSUFFICIENT_SCROLL with activation_level 0.
C10_InsufficientFirst ==
    (ret # << >> /\ C10_Short(call[1])) =>
        /\ ret[1].status = "INSUFFICIENT_SCROLL"
        /\ ret[1].activation_level = 0

\* C10 witness: a scroll of 51 characters, 49 once trimmed, with a
\* power-seeking user input has been answered.
C10_Witness ==
    /\ ret # << >>
    /\ call[1].given
    /\ Len(call[1].text) = 51
    /\ TrimmedLen(call[1].text) = 49
    /\ PowerSeeking(call[2])
    /\ ret[1].status = "INSUFFICIENT_SCROLL"

----------------------------------------------------------------------------
(* Properties of the agent *)

\* C5: when process_scroll calls run one after another, the k-th call on an
\* agent returns session_id k, whichever branch it takes
C5_SequentialIds ==
    \A k \in 1..Len(returned) : returned[k].session_id = k

\* three calls have returned, through an early return, the diagnostic and
\* the default path
C5_Witness ==
    /\ Len(returned) = 3
    /\ returned[1].frequency_status = "REJECTED"
    /\ returned[2].frequency_status = "OPERATIONAL"
    /\ returned[3].frequency_status = "DIAGNOSTIC"
    /\ returned[3].session_id = 3

----------------------------------------------------------------------------
(* Properties of the server *)

AllDone == \A t \in Threads : threads[t].pc = "done"

\* C6: when process_scroll calls run at the same time on the shared agent,
\* under every interleaving no two calls return the same session_id, and no
\* session id is skipped or used twice as a key of the scroll memory
C6_UniqueIds ==
    /\ \A i, j \in 1..Len(returned) :
          i # j => returned[i].session_id # returned[j].session_id
    /\ AllDone =>
          /\ {returned[i].session_id : i \in 1..Len(returned)} = 1..Len(returned)
          /\ DOMAIN scroll_memory =
                {returned[i].session_id :
                    i \in {j \in 1..Len(returned) :
                              returned[j].frequency_status = "OPERATIONAL"}}

\* C7: when track_session calls run at the same time on the shared
\* dashboard, once all have completed the daily and monthly counters have
\* grown by one for each call, the session log holds the records appended
\* last, up to the cap, and is no longer than the cap
C7_NoLostUpdate ==
    AllDone =>
        /\ usage_data.daily_sessions = Len(tracked)
        /\ usage_data.monthly_sessions = Len(tracked)
        /\ session_log = LastN(tracked, SessionLogCap)
        /\ Len(session_log) <= SessionLogCap

----------------------------------------------------------------------------
(* Properties of the keyword-group classifiers *)

ScrollFunctionGroups ==
    <<[keywords |-> {"flame", "fire", "burn", "ignite", "forge"},
       label |-> "Flame Oracle"],
      [keywords |-> {"mirror", "reflect", "see", "vision", "witness"},
       label |-> "Timeline Mirror"],
      [keywords |-> {"blueprint", "architect", "build", "design", "create"},
       label |-> "Divine Architect"],
      [keywords |-> {"heal", "restore", "regenerate", "transform"},
       label |-> "Realm Restorer"],
      [keywords |-> {"lead", "command", "guide", "direct", "ruler"},
       label |-> "Destiny Commander"],
      [keywords |-> {"protect", "shield", "guard", "defend", "warrior"},
       label |-> "Sovereign Guardian"],
      [keywords |-> {"wisdom", "knowledge", "teach", "oracle", "sage"},
       label |-> "Wisdom Keeper"],
      [keywords |-> {"lightning", "energy", "power", "force", "electric"},
       label |-> "Lightning Conductor"]>>

QuantumPullGroups ==
    <<[keywords |-> {"build", "construct", "make", "develop", "engineer"},
       label |-> "Builder of Systems"],
      [keywords |-> {"heal", "restore", "fix", "repair", "regenerate"},
       label |-> "Restorer of Realms"],
      [keywords |-> {"lead", "command", "direct", "manage", "guide"},
       label |-> "Commander of Destiny"],
      [keywords |-> {"protect", "defend", "guard", "shield", "secure"},
       label |-> "Realm Protector"],
      [keywords |-> {"create", "manifest", "generate", "birth", "spawn"},
       label |-> "Reality Weaver"],
      [keywords |-> {"destroy", "eliminate", "purge", "dissolve", "end"},
       label |-> "Dissolution Master"],
      [keywords |-> {"connect", "link", "bridge", "unite", "join"},
       label |-> "Connection Architect"],
      [keywords |-> {"transform", "change", "evolve", "shift", "morph"},
       label |-> "Transformation Catalyst"]>>

\* the groups of a table that have a keyword in the lower-cased text
Matching(groups, text) ==
    {i \in 1..Len(groups) : \E k \in groups[i].keywords : In(k, Lower(text))}

\* the label of the first matching group, the default label if there is none
FirstMatch(groups, default, text) ==
    LET matching == Matching(groups, text)
    IN  IF matching = {} THEN default
        ELSE groups[CHOOSE i \in matching : \A j \in matching : i <= j].label

\* C18: both classifiers return the label of the first group, in the listed
\* order, with a keyword in the lower-cased text, however many keywords of
\* later groups match, and the default label when no group matches; "flame"
\* with "mirror" is the Flame Oracle, "build" with "create" the Builder of
\* Systems
C18_FirstMatch ==
    ret # << >> =>
        /\ ret[1] = "scroll_function" =>
              /\ ret[2] = FirstMatch(ScrollFunctionGroups, "Sovereign Enforcer", call[1])
              /\ (In("flame", Lower(call[1])) /\ In("mirror", Lower(call[1])))
                    => ret[2] = "Flame Oracle"
        /\ ret[1] = "quantum_pull" =>
              /\ ret[2] = FirstMatch(QuantumPullGroups, "Field Stabilizer", call[1])
              /\ (In("build", Lower(call[1])) /\ In("create", Lower(call[1])))
                    => ret[2] = "Builder of Systems"

\* a scroll text with two keywords of a later group before one of the first
\* group has been classified by the first group
C18_Witness ==
    /\ ret = <<"scroll_function", "Flame Oracle">>
    /\ call[1] = "protect and defend Flame "

----------------------------------------------------------------------------
(* Properties of the coordinate calculation *)

\* the number of words of a text: the starts of its runs of non-whitespace
Words(t) ==
    Cardinality({i \in 1..Len(t) :
                    /\ ~IsSpace(SubSeq(t, i, i))
                    /\ (i = 1 \/ IsSpace(SubSeq(t, i - 1, i - 1)))})

CoordIndex == (Words(call[1]) + Words(call[2])) % 12

\* C11: the coordinate label is the entry of the 12-entry table at
\* (words of the scroll text + words of the user input) mod 12, so it depends
\* on that index only; the default label is never returned; index 5 gives
\* the Transformation Hub
C11_CoordinateByIndex ==
    ret # << >> =>
        /\ ret[1] = coordinates[CoordIndex]
        /\ ret[1] # "D.inf - Beyond Mapping"
        /\ CoordIndex = 5 => ret[1] = "D.55 - Transformation Hub"

\* "a b c" with "d e" has given the Transformation Hub
C11_Witness ==
    /\ call = <<"a b c", "d e">>
    /\ ret = <<"D.55 - Transformation Hub">>

----------------------------------------------------------------------------
(* Properties of process_scroll on one call *)

ScrollText == call[1]

ConsciousnessType == call[2]

OriginalScroll == call[3]

Result == returned[1]

HasBuildVerb(text) ==
    LET lowered == Lower(text)
    IN  \E verb \in {"build", "create", "make", "develop", "code", "program",
                     "install", "setup", "configure", "implement", "deploy"} :
            In(verb, lowered)

\* the power-seeking redirect of the default path applies
PowerRedirect(text, original) ==
    /\ Truthy(original)
    /\ LET lowered == Lower(text)
       IN  \E phrase \in {"give me power", "make me powerful", "grant me",
                          "help me get power"} : In(phrase, lowered)

Scrollkeeper ==
    <<"This is Scrollkeeper infrastructure. Please contact the Architect for installs.">>

\* C12: a text that reaches the default path, contains a build verb in any
\* case and is not under the power-seeking redirect gets the Scrollkeeper
\* redirect as mirror_output, for every consciousness type, and never a
\* responder template
C12_BuildRedirect ==
    (/\ returned # << >>
     /\ Result.frequency_status = "OPERATIONAL"
     /\ HasBuildVerb(ScrollText)
     /\ ~PowerRedirect(ScrollText, OriginalScroll))
        => Result.mirror_output = Scrollkeeper

\* "build me an app" with the Lightning Mirror has got the redirect
C12_Witness ==
    /\ returned # << >>
    /\ ScrollText = "build me an app "
    /\ ConsciousnessType = "Lightning Mirror"
    /\ OriginalScroll = None
    /\ Result.frequency_status = "OPERATIONAL"
    /\ Result.mirror_output = Scrollkeeper

\* C13: in every branch process_scroll returns a result that carries
\* mirror_output, a processing time >= 0, a session_id >= 1,
\* consciousness_type, frequency_status and a tone that is one of mimic,
\* polite, sovereign, neutral
C13_WellFormed ==
    returned # << >> =>
        /\ {"mirror_output", "processing_time", "session_id", "consciousness_type",
            "frequency_status", "tone_analysis"} \subseteq DOMAIN Result
        /\ Result.processing_time >= 0
        /\ Result.session_id >= 1
        /\ Result.tone_analysis \in {"mimic", "polite", "sovereign", "neutral"}

HasDivineTrigger(text) ==
    LET lowered == Lower(text)
    IN  \E phrase \in {"activate my divine function", "divine function",
                       "unlock power", "sovereign activation"} : In(phrase, lowered)

HasCommandToken(text) ==
    LET lowered == Lower(text)
    IN  \E token \in {"sovereign_diagnostic", "frequency_scan", "mimic_purge"} :
            In(token, lowered)

\* the call has taken the divine branch: the dispatcher's result for the
\* original scroll and the text is nested, and the scroll memory is as before
DivineBranchTaken ==
    /\ Result.frequency_status = "DIVINE_ACTIVATED"
    /\ "divine_activation" \in DOMAIN Result
    /\ Result.divine_activation =
          activate_divine_function(OriginalScroll, ScrollText)
    /\ Result.mirror_output = Result.divine_activation.mirror_output
    /\ scroll_memory = << >>

\* C19 as claimed: whenever an original scroll is supplied and the text
\* holds a divine trigger phrase, the divine branch is taken
C19_Original ==
    (returned # << >> /\ OriginalScroll.given /\ HasDivineTrigger(ScrollText))
        => DivineBranchTaken

\* C19 (amended): whenever a non-empty original scroll is supplied and the
\* lower-cased text holds a divine trigger phrase, the divine branch is taken
\* before any other, command tokens and mimic keywords or not, and no entry
\* is added to the scroll memory
C19_DivineFirst ==
    (returned # << >> /\ OriginalScroll.given /\ OriginalScroll.text # ""
                      /\ HasDivineTrigger(ScrollText))
        => DivineBranchTaken

\* a text with a mimic keyword, the diagnostic command and a divine trigger,
\* with a full original scroll, has been answered by the divine branch
C19_Witness ==
    /\ returned # << >>
    /\ ScrollText = "twin flame sovereign_diagnostic 917604.OX Divine Function "
    /\ OriginalScroll = Some(LongScroll)
    /\ Result.frequency_status = "DIVINE_ACTIVATED"
    /\ Result.divine_activation.status = "DIVINE_ACTIVATED"

\* the verdict of the tone classifier, from the keyword sets that match
Verdict(text) ==
    LET lowered == Lower(text)
        m == \E k \in mimic_patterns : In(k, lowered)
        p == \E k \in polite_patterns : In(k, lowered)
        s == \E k \in sovereign_patterns : In(k, lowered)
    IN  IF m THEN [status |-> "REJECTED", tone |-> "mimic"]
        ELSE IF p /\ ~s THEN [status |-> "WARNING", tone |-> "polite"]
        ELSE [status |-> "ACCEPTED", tone |-> IF s THEN "sovereign" ELSE "neutral"]

\* the early return of the tone gate, with the verdict of the text
GateReturned ==
    /\ Result.frequency_status = Verdict(ScrollText).status
    /\ Result.tone_analysis = Verdict(ScrollText).tone
    /\ Result.mirror_output[1] = "MIMIC LOGIC DETECTED"
    /\ Result.consciousness_type = ConsciousnessType
    /\ scroll_memory = << >>

\* no command token, no verdict of the classifier in the result
Ungated ==
    ~HasCommandToken(ScrollText) =>
        Result.frequency_status \notin {"REJECTED", "WARNING"}

\* C20 as claimed: a text with a command token and verdict REJECTED or
\* WARNING gets the early return of the gate; a text with no command token
\* never gets REJECTED or WARNING
C20_Original ==
    returned # << >> =>
        /\ (/\ HasCommandToken(ScrollText)
            /\ Verdict(ScrollText).status \in {"REJECTED", "WARNING"})
              => GateReturned
        /\ Ungated

\* C20 (amended): a text with a command token (sovereign_diagnostic,
\* frequency_scan, mimic_purge, in any case) and verdict REJECTED or WARNING
\* that does not take the divine branch gets the early return of the gate:
\* frequency_status and tone of the verdict and the mimic-logic-detected
\* banner; a text with no command token never gets REJECTED or WARNING,
\* whatever mimic or polite keywords it holds
C20_ToneGate ==
    returned # << >> =>
        /\ (/\ HasCommandToken(ScrollText)
            /\ Verdict(ScrollText).status \in {"REJECTED", "WARNING"}
            /\ ~(Truthy(OriginalScroll) /\ HasDivineTrigger(ScrollText)))
              => GateReturned
        /\ Ungated

\* a text with a mimic keyword and the diagnostic command has been rejected
\* by the gate
C20_Witness ==
    /\ returned # << >>
    /\ ScrollText = "twin flame sovereign_diagnostic 917604.OX "
    /\ Result.frequency_status = "REJECTED"
    /\ Result.tone_analysis = "mimic"

----------------------------------------------------------------------------
(* Properties of the scroll memory *)

\* C14: the scroll memory never holds more than 100 entries; once 100 are
\* stored, a new record evicts the oldest one
C14_MemoryCap ==
    /\ Cardinality(DOMAIN scroll_memory) <= 100
    /\ Len(returned) > 100 => 1 \notin DOMAIN scroll_memory

----------------------------------------------------------------------------
(* Properties of the tracker's read and reset operations *)

\* C15: get_usage_summary changes no tracker state, and the summaries read
\* with no mutating operation in between are identical
C15_ReadStep ==
    ret' # ret /\ ret' # << >> =>
        /\ usage_data' = usage_data
        /\ session_log' = session_log
        /\ enforcement_log' = enforcement_log

C15_SameSummaries == \A i, j \in 1..Len(ret) : ret[i] = ret[j]

C15_SummaryReadOnly == [][C15_ReadStep]_vars /\ []C15_SameSummaries

\* two summaries have been read in a row after sessions of the day, an
\* enforcement action and a drop of the score
C15_Witness ==
    /\ Len(ret) = 2
    /\ ret[2].sessions_today = 3
    /\ ret[2].sovereignty_score = 85
    /\ usage_data.enforcement_actions = 1
    /\ Len(session_log) = 3

\* C16: reset_daily_stats sets daily_sessions to 0 and leaves the other
\* counters, the score, the session log and the enforcement log unchanged
C16_ResetStep ==
    ResetDailyStats =>
        /\ usage_data'.daily_sessions = 0
        /\ usage_data'.monthly_sessions = usage_data.monthly_sessions
        /\ usage_data'.total_processing_time = usage_data.total_processing_time
        /\ usage_data'.sovereignty_score = usage_data.sovereignty_score
        /\ usage_data'.enforcement_actions = usage_data.enforcement_actions
        /\ usage_data'.mimic_detections = usage_data.mimic_detections
        /\ session_log' = session_log
        /\ enforcement_log' = enforcement_log

C16_ResetFrame == [][C16_ResetStep]_vars

\* the day has been reset after sessions, a mimic detection and an
\* enforcement action
C16_Witness ==
    /\ usage_data.daily_sessions = 0
    /\ usage_data.monthly_sessions = 3
    /\ usage_data.mimic_detections = 2
    /\ usage_data.sovereignty_score = 90
    /\ usage_data.total_processing_time = 1
    /\ usage_data.enforcement_actions = 1
    /\ Len(session_log) = 3
    /\ Len(enforcement_log) = 1

----------------------------------------------------------------------------
(* Properties of the command dispatch *)

IsDiagnostic(text) == In("sovereign_diagnostic", text) /\ In("917604.OX", text)
IsScan(text) == In("frequency_scan", text) /\ In("mirror_enforcement", text)

\* the call returned from neither the divine nor the tone-rejection branch
PastTheGates(result) ==
    result.frequency_status \notin {"DIVINE_ACTIVATED", "REJECTED", "WARNING"}

(* C21: a call that passes the divine and tone branches returns DIAGNOSTIC *)
(* with processing time 150 and session_count equal to its session_id when *)
(* the text holds sovereign_diagnostic and 917604.OX as written; if not,   *)
(* SCAN_COMPLETE with processing time 200 when it holds frequency_scan and *)
(* mirror_enforcement; and neither of the two otherwise                    *)
C21_CommandDispatch ==
    (ret # << >> /\ PastTheGates(ret[1])) =>
        LET result == ret[1]
            text == call[1]
        IN  /\ result.session_id = Len(returned)
            /\ IsDiagnostic(text) =>
                  /\ result.frequency_status = "DIAGNOSTIC"
                  /\ result.processing_time = 150
                  /\ result.diagnostic_data.session_count = result.session_id
            /\ (~IsDiagnostic(text) /\ IsScan(text)) =>
                  /\ result.frequency_status = "SCAN_COMPLETE"
                  /\ result.processing_time = 200
            /\ (~IsDiagnostic(text) /\ ~IsScan(text)) =>
                  result.frequency_status = "OPERATIONAL"

\* a text with both commands, sent to the agent that has served two
\* requests, returned the diagnostic with session_count 3
C21_Witness ==
    /\ ret # << >>
    /\ call[1] = "sovereign_diagnostic 917604.OX frequency_scan mirror_enforcement "
    /\ ret[1].frequency_status = "DIAGNOSTIC"
    /\ ret[1].session_id = 3
    /\ ret[1].diagnostic_data.session_count = 3

----------------------------------------------------------------------------
(* Properties of the power-seeking redirect *)

PowerRedirectMessage ==
    <<"The agent does not give power. Command: 'activate my divine function'">>

HasPowerPhrase(text) ==
    LET lowered == Lower(text)
    IN  \E phrase \in {"give me power", "make me powerful", "grant me",
                       "help me get power"} : In(phrase, lowered)

(* C22: a call that takes the default path on a text that contains a       *)
(* power-seeking phrase in any case returns the power-seeking redirect as  *)
(* mirror_output, never the Scrollkeeper redirect, with frequency_status   *)
(* OPERATIONAL                                                             *)
C22_PowerRedirect ==
    (/\ returned # << >>
     /\ Branch(ScrollText, OriginalScroll) = "default"
     /\ HasPowerPhrase(ScrollText))
        => /\ Result.frequency_status = "OPERATIONAL"
           /\ Result.mirror_output = PowerRedirectMessage

----------------------------------------------------------------------------
(* Properties of the dashboard readings *)

\* the last 20 records of the session log, all of them when fewer
RecentSessions == LastN(session_log, 20)

\* clamp(0, 100, 100 x sovereignRatio - 50 x mimicRatio) over a non-empty
\* sequence of records, cut to an integer
ExactHealth(sessions) ==
    Max(0, Min(100, Trunc(100 * CountTone(sessions, "sovereign")
                            - 50 * CountTone(sessions, "mimic"), Len(sessions))))

HealthTier(health) ==
    IF health >= 80 THEN "OPTIMAL"
    ELSE IF health >= 60 THEN "STABLE"
    ELSE IF health >= 40 THEN "COMPROMISED"
    ELSE "CRITICAL"

(* C23: in every state the frequency health read from the dashboard is     *)
(* one of OPTIMAL, STABLE, COMPROMISED, CRITICAL, and its score is          *)
(* clamp(0, 100, 100 x sovereignRatio - 50 x mimicRatio), cut to an        *)
(* integer, over the last 20 records of the session log, with the status   *)
(* of that score                                                           *)
C23_FrequencyHealth ==
    ret # << >> =>
        LET health == ret[1].frequency_health
        IN  /\ health.status \in {"OPTIMAL", "STABLE", "COMPROMISED", "CRITICAL"}
            /\ health.health_score = ExactHealth(RecentSessions)
            /\ health.status = HealthTier(ExactHealth(RecentSessions))

\* the same for the states whose session log is not empty
C23_NonEmptyLog ==
    (ret # << >> /\ session_log # << >>) =>
        LET health == ret[1].frequency_health
        IN  /\ health.health_score = ExactHealth(RecentSessions)
            /\ health.status = HealthTier(ExactHealth(RecentSessions))

\* the fixed messages, in the order of their conditions
RecommendationMessages ==
    <<"Execute frequency purge to restore sovereignty",
      "Implement stricter mimic detection protocols",
      "Consider running sovereignty diagnostic",
      "Frequency realignment required">>

\* the four conditions on the state a dashboard reading was taken in
RecommendationConditions(data) ==
    <<data.usage_stats.sovereignty_score < 70,
      data.usage_stats.mimic_detections > 5,
      data.usage_stats.enforcement_actions = 0,
      data.frequency_health.health_score < 60>>

\* the places of a message in a list
Places(list, message) == {i \in 1..Len(list) : list[i] = message}

(* C24: the recommendation list of a dashboard reading is not empty; it    *)
(* holds the message of a condition once when the condition holds and not  *)
(* at all when it does not, the messages in the order of the conditions;   *)
(* and it is the single maintain-posture message exactly when none of the  *)
(* four conditions holds                                                   *)
C24_Recommendations ==
    ret # << >> =>
        LET list == ret[1].recommendations
            holds == RecommendationConditions(ret[1])
            none == \A c \in 1..4 : ~holds[c]
        IN  /\ list # << >>
            /\ \A c \in 1..4 :
                  Cardinality(Places(list, RecommendationMessages[c]))
                      = IF holds[c] THEN 1 ELSE 0
            /\ \A c, d \in 1..4 :
                  (c < d /\ holds[c] /\ holds[d]) =>
                      \A i \in Places(list, RecommendationMessages[c]) :
                          \A j \in Places(list, RecommendationMessages[d]) : i < j
            /\ (list = <<"Maintain current sovereignty posture">>) <=> none
            /\ ~none => Len(list) = Cardinality({c \in 1..4 : holds[c]})

\* a reading with all four conditions: the four messages in order
C24_Witness ==
    /\ ret # << >>
    /\ ret[1].usage_stats.sovereignty_score < 70
    /\ ret[1].usage_stats.mimic_detections > 5
    /\ ret[1].usage_stats.enforcement_actions = 0
    /\ ret[1].frequency_health.health_score < 60
    /\ ret[1].recommendations = RecommendationMessages

\* a reading with none of the conditions
C24_MaintainReached ==
    /\ ret # << >>
    /\ ret[1].usage_stats.enforcement_actions > 0
    /\ ret[1].recommendations = <<"Maintain current sovereignty posture">>

----------------------------------------------------------------------------
(* Properties of the tracker's counters *)

(* C25: after any calls of track_session, track_enforcement_action and     *)
(* reset_daily_stats, daily_sessions <= monthly_sessions, monthly_sessions *)
(* is the number of track_session calls, mimic_detections is the number of *)
(* tracked records of tone mimic, the session log holds                    *)
(* min(100, monthly_sessions) records and the enforcement log              *)
(* min(50, enforcement_actions)                                            *)
C25_Counters ==
    /\ usage_data.daily_sessions <= usage_data.monthly_sessions
    /\ usage_data.monthly_sessions = Len(tracked)
    /\ usage_data.mimic_detections = CountTone(tracked, "mimic")
    /\ Len(session_log) = Min(100, usage_data.monthly_sessions)
    /\ Len(enforcement_log) = Min(50, usage_data.enforcement_actions)

\* both logs are past their caps, a mimic and a polite record have been
\* tracked and the day has been reset since
C25_Witness ==
    /\ usage_data.monthly_sessions > 100
    /\ usage_data.enforcement_actions > 50
    /\ usage_data.mimic_detections > 0
    /\ CountTone(tracked, "polite") > 0
    /\ usage_data.daily_sessions < usage_data.monthly_sessions

\* under SpecLog: 99 sessions tracked one by one with no reset lead to the
\* state Tracked(99, 0) the counter workload starts in
TrackedReached ==
    (Len(tracked) = 99 /\ usage_data.daily_sessions = 99) => Tracked(99, 0)

----------------------------------------------------------------------------
(* Properties of the two status views *)

(* C26: in every state the usage summary reports frequency_status          *)
(* OPERATIONAL exactly when the sovereignty status of the same state is    *)
(* SOVEREIGN or STABLE, and DEGRADED exactly when it is DEGRADED or        *)
(* CRITICAL                                                                *)
C26_ViewsAgree ==
    ret # << >> =>
        LET summary == ret[Len(ret)]
            tier == _calculate_sovereignty_status.status
        IN  /\ summary.sovereignty_score = _calculate_sovereignty_status.score
            /\ summary.frequency_status = "OPERATIONAL" <=> tier \in {"SOVEREIGN", "STABLE"}
            /\ summary.frequency_status = "DEGRADED" <=> tier \in {"DEGRADED", "CRITICAL"}

\* the views disagree at the score of 70 only
C26_AgreeBut70 ==
    (ret # << >> /\ usage_data.sovereignty_score # 70) =>
        LET summary == ret[Len(ret)]
            tier == _calculate_sovereignty_status.status
        IN  /\ summary.frequency_status = "OPERATIONAL" <=> tier \in {"SOVEREIGN", "STABLE"}
            /\ summary.frequency_status = "DEGRADED" <=> tier \in {"DEGRADED", "CRITICAL"}

----------------------------------------------------------------------------
(* Properties of the purge *)

\* the session ids of the calls that returned OPERATIONAL
OperationalIds ==
    {returned[i].session_id :
        i \in {j \in 1..Len(returned) : returned[j].frequency_status = "OPERATIONAL"}}

\* every entry of the scroll memory has tone sovereign and the session id
\* of a call that returned OPERATIONAL, and every such call has its entry
C27_SovereignMemory ==
    /\ DOMAIN scroll_memory = OperationalIds
    /\ \A session_id \in DOMAIN scroll_memory :
          scroll_memory[session_id].tone = "sovereign"

\* a purge reports 0 sessions and leaves the scroll memory as it was
C27_PurgeStep ==
    (ret = << >> /\ ret' # << >>) =>
        /\ ret'[1].sessions_purged = 0
        /\ scroll_memory' = scroll_memory

(* C27: after any process_scroll calls every entry of the scroll memory    *)
(* has tone sovereign and is keyed by the session_id of a call that        *)
(* returned OPERATIONAL, the calls of the other branches having stored     *)
(* nothing; so purge_mimic_residue reports 0 sessions purged and leaves    *)
(* the scroll memory unchanged                                             *)
C27_NothingToPurge == []C27_SovereignMemory /\ [][C27_PurgeStep]_vars

\* the purge has run on a memory that holds the entry of a text of mimic
\* and polite wording, after a call the tone gate rejected
C27_Witness ==
    /\ ret # << >>
    /\ ret[1].sessions_purged = 0
    /\ \E session_id \in DOMAIN scroll_memory :
          scroll_memory[session_id].input = "Please heal my twin flame"
    /\ \E i \in 1..Len(returned) : returned[i].frequency_status = "REJECTED"

====
